---- MODULE Spec2Model ----
(***************************************************************************)
(* A model of the bgen toolkit's command line programs (apps/bgenix.cpp,   *)
(* apps/edit-bgen.cpp).  The first part models `bgenix -index`: the build  *)
(* of the index sidecar under the temp-then-rename discipline.  The second *)
(* part models a `bgenix` selection run: the query assembled from the      *)
(* command line, the metadata check and the no-transcode copy.             *)
(*                                                                         *)
(* Files are sequences of bytes (0..255); all integers on disk are little  *)
(* endian.  A file that does not exist is Absent.  A sqlite file is        *)
(* modelled by its committed content.                                      *)
(***************************************************************************)
EXTENDS Integers, Sequences, FiniteSets, TLC

\* ------------------------------------------------------------------ bounds
\* Longest variant stream of a data file that is indexed.
MaxVariants == 11
\* Number of bgenix invocations in one behaviour of the index build.
MaxRuns == 2
\* Longest variant stream of a data file that is queried.
MaxSelVariants == 3

\* ------------------------------------------------------- program constants
chunk_size == 10
INT_MAX == 2147483647

\* The return code of a process that has not ended, and the exit status of a
\* process ended by std::terminate (an exception nobody caught): SIGABRT.
NoReturnCode == 999
Terminated == 134

\* ------------------------------------------------------------- data files
RECURSIVE Concat(_)
Concat(ss) == IF ss = << >> THEN << >> ELSE Head(ss) \o Concat(Tail(ss))

RECURSIVE SumTo(_, _)
SumTo(f, n) == IF n = 0 THEN 0 ELSE f[n] + SumTo(f, n - 1)

Min(a, b) == IF a < b THEN a ELSE b

\* Fixed-width little-endian integers (genfile/bgen little endian primitives).
write_little_endian_integer(v, width) ==
    [k \in 1..width |-> (v \div (256 ^ (k - 1))) % 256]

read_little_endian_integer(bytes, at, width) ==
    SumTo([k \in 1..width |-> bytes[at + k - 1] * (256 ^ (k - 1))], width)

\* The flags word is kept as its four bytes, least significant first (bit 31
\* does not fit the integers of the checker).  Bits 0-1 are the compression,
\* bits 2-5 the layout, bit 31 says that sample identifiers are stored.
e_Layout2 == 8
e_ZlibCompression == 1
e_SampleIdentifiers == 128

FlagsWord(low, has_ids) ==
    <<low, 0, 0, IF has_ids THEN e_SampleIdentifiers ELSE 0>>

HasSampleIdentifiers(flags) == flags[4] >= e_SampleIdentifiers

\* The header block: header_size, number_of_variants, number_of_samples,
\* magic, free_data, flags.
header_size(context) == 20 + Len(context.free_data)

write_header_block(context) ==
    write_little_endian_integer(header_size(context), 4)
    \o write_little_endian_integer(context.number_of_variants, 4)
    \o write_little_endian_integer(context.number_of_samples, 4)
    \o context.magic
    \o context.free_data
    \o context.flags

\* Reads the header block that starts at byte `at` (1-based) of `bytes`.
read_header_block(bytes, at) ==
    LET hs == read_little_endian_integer(bytes, at, 4)
    IN  [number_of_variants |-> read_little_endian_integer(bytes, at + 4, 4),
         number_of_samples  |-> read_little_endian_integer(bytes, at + 8, 4),
         magic              |-> SubSeq(bytes, at + 12, at + 15),
         free_data          |-> SubSeq(bytes, at + 16, at + hs - 5),
         flags              |-> SubSeq(bytes, at + hs - 4, at + hs - 1)]

\* The bytes of one variant record: opaque to bgenix, which copies them.
VariantBytes(v, i) ==
    [k \in 1..(v.id_size + v.probs_size) |-> (37 * i + 11 * v.position + k) % 256]

\* A data file on disk, by its parts.  `bad` is 0, or the number of the
\* first variant record that is cut short.
FileOffset(f) == header_size(f.context) + Len(f.sample_block)

FileBytes(f) ==
    write_little_endian_integer(FileOffset(f), 4)
    \o write_header_block(f.context)
    \o f.sample_block
    \o Concat([i \in 1..Len(f.variants) |-> VariantBytes(f.variants[i], i)])

FileSize(f) ==
    4 + FileOffset(f)
      + SumTo([i \in 1..Len(f.variants) |->
                 f.variants[i].id_size + f.variants[i].probs_size], Len(f.variants))

\* Where variant i's record begins, counted from the start of the file.
TrueStart(f, i) ==
    4 + FileOffset(f)
      + SumTo([j \in 1..(i - 1) |->
                 f.variants[j].id_size + f.variants[j].probs_size], i - 1)

\* The fingerprint a View captures of the file it opens: filename, size,
\* last write time and the first (at most 1000) bytes.
FirstBytesLen == 1000

FileMetadata(f) ==
    [filename        |-> f.filename,
     size            |-> FileSize(f),
     last_write_time |-> f.last_write_time,
     first_bytes     |-> SubSeq(FileBytes(f), 1, Min(FirstBytesLen, FileSize(f)))]

\* ---------------------------------------------- data files that are indexed
BasicContext(n, has_ids) ==
    [number_of_variants |-> n,
     number_of_samples  |-> 1,
     magic              |-> <<98, 103, 101, 110>>,
     free_data          |-> << >>,
     flags              |-> FlagsWord(e_Layout2 + e_ZlibCompression, has_ids)]

\* The sample identifier block of one sample named "a": block length,
\* sample count, then the length-prefixed name.
SampleBlock ==
    write_little_endian_integer(11, 4) \o write_little_endian_integer(1, 4)
    \o write_little_endian_integer(1, 2) \o <<97>>

\* Variant i of the file with length pattern p: a biallelic variant on
\* chromosome "01"; the identifying block and the probability block have the
\* sizes of a layout 2 record with one sample (at least 24 and 12 bytes).
IndexedVariant(i, p) ==
    [SNPID      |-> "",
     rsid       |-> IF i % 2 = 0 THEN "rs2" ELSE "rs1",
     chromosome |-> "01",
     position   |-> 100 * i,
     alleles    |-> <<"A", "G">>,
     id_size    |-> 27 + ((i + p) % 3),
     probs_size |-> 12 + ((i * p) % 2)]

IndexedFile(n, p, bad, has_ids) ==
    [exists          |-> TRUE,
     filename        |-> "f.bgen",
     last_write_time |-> 1,
     header_ok       |-> TRUE,
     context         |-> BasicContext(n, has_ids),
     sample_block    |-> IF has_ids THEN SampleBlock ELSE << >>,
     variants        |-> [i \in 1..n |-> IndexedVariant(i, p)],
     bad             |-> bad]

MissingFile == [IndexedFile(0, 1, 0, FALSE) EXCEPT !.exists = FALSE]

IndexFiles ==
    {IndexedFile(n, 1, 0, FALSE) : n \in 0..MaxVariants}
    \cup {IndexedFile(3, 2, 0, TRUE), IndexedFile(3, 1, 2, FALSE),
          IndexedFile(2, 2, 1, TRUE),
          [IndexedFile(1, 1, 0, FALSE) EXCEPT !.header_ok = FALSE],
          MissingFile}

\* ------------------------------------------------------- the index sidecar
\* The committed content of a sqlite file: whether the Metadata and Variant
\* tables exist, and their rows.
Absent == [exists |-> FALSE, tables |-> FALSE, Metadata |-> << >>, Variant |-> << >>]
EmptyDb == [exists |-> TRUE, tables |-> FALSE, Metadata |-> << >>, Variant |-> << >>]

\* An index file left by the build of an earlier version of the data file.
OldIndex ==
    [exists   |-> TRUE,
     tables   |-> TRUE,
     Metadata |-> <<[filename |-> "f.bgen", size |-> 24,
                     last_write_time |-> 0, first_bytes |-> << >>]>>,
     Variant  |-> << >>]

\* A temporary file left by a build that was interrupted after it had
\* created the tables.
StaleTmp == [exists |-> TRUE, tables |-> TRUE, Metadata |-> << >>, Variant |-> << >>]

ClosedConnection == [open |-> FALSE, transaction |-> FALSE, pending |-> << >>]
NoView == [position |-> 0, next |-> 0, state |-> "NeedHeader"]

\* ------------------------------------------------------------------- state
VARIABLES
    bgen,           \* the data file named by -g
    idx,            \* the file at the index path <index>
    tmp,            \* the file at <index>.tmp
    opt,            \* the options of the current invocation
    pc,             \* where the invocation is
    rc,             \* the process's return code, once it has ended
    log,            \* the diagnostics printed so far by this invocation
    conn,           \* the build's database connection
    view,           \* the View over the data file
    file_pos,       \* create_bgen_index_direct's file_pos
    variant_count,  \* create_bgen_index_direct's variant_count
    exc,            \* the exception in flight, and where it was thrown
    run,            \* the number of the current invocation
    idx0, tmp0,     \* <index> and <index>.tmp as the invocation found them
    opened,         \* whether this invocation opened a database connection
    query,          \* the index query being assembled
    plan,           \* the query's materialized plan: <<file_start, length>> pairs
    out,            \* the bytes written to standard output
    in_pos,         \* the read position of process_selection_notranscode's stream
    plan_i,         \* process_selection_notranscode's loop counter
    range_spec,     \* parse_range's argument, as the user typed it
    range_variant,  \* the variant the parsed range is matched against
    range_pc,       \* where the call of parse_range is
    range_out,      \* what parse_range returned or threw
    range_hit,      \* whether the index query's range predicate took the variant
    table_x,        \* compute_bgen_v11_probability_encoding_table's x
    table_y,        \* compute_bgen_v11_probability_encoding_table's y
    table_last,     \* the key and value of its latest result[key] = value
    v11_view,       \* the View the -v11 transcoder reads: layout, samples, variants
    v11_pc,         \* where process_selection_transcode_bgen_v11 is
    v11_i,          \* its loop counter i
    v11_out,        \* what it has written to standard output
    v11_log,        \* what it has written to standard error
    v11_rc,         \* the return code of the run
    vtab_bits,      \* compute_vcf_encoding_table's argument bits
    vtab_x,         \* compute_vcf_encoding_table's x
    vtab_y,         \* compute_vcf_encoding_table's y
    vtab_last,      \* its latest copy into storage: where, and what
    vtab_prev,      \* the copy into storage before that
    vcf_view,       \* the View the -vcf transcoder reads: layout, samples, variants
    vcf_pc,         \* where process_selection_transcode_bgen_vcf is
    vcf_i,          \* its loop counter i
    vcf_out,        \* the lines it has written to standard output
    gt_ploidy,      \* VCFProbWriter's m_ploidy
    gt_alleles,     \* VCFProbWriter's m_number_of_alleles
    gt_probs,       \* construct_unphased_GT's probs, in tenths
    gt_genotype,    \* m_genotype
    gt_limits,      \* m_genotype_allele_limits
    gt_index,       \* construct_unphased_GT's index
    gt_met,         \* construct_unphased_GT's metThreshhold
    gt_buffer,      \* m_GT_buffer as returned, or the exception thrown
    gt_pc,          \* where construct_unphased_GT is
    gt_visited,     \* the genotypes whose probability has been looked at, in order
    gt_wrapped,     \* whether a count or a limit was decremented at zero
    cat_files,      \* the files named by cat-bgen's -g, in order
    cat_opt,        \* cat-bgen's options
    cat_pc,         \* where cat-bgen is
    cat_i,          \* concatenate's loop counter i
    cat_og,         \* the file named by -og
    cat_result,     \* concatenate's resultContext
    cat_log,        \* what cat-bgen has logged
    cat_rc,         \* cat-bgen's return code
    edit_disk,      \* the files named by edit-bgen's -g, as they are on disk
    edit_streams,   \* the position of each file's fstream; its get and put positions are one
    edit_opt,       \* edit-bgen's options
    edit_pc,        \* where edit-bgen is
    edit_i,         \* the loop counter i of the function that is running
    edit_log,       \* what edit-bgen has logged
    edit_rc,        \* edit-bgen's return code
    loop_mode,      \* which loop over a View runs: index, list, vcf or v11
    loop_ndebug,    \* whether the build defines NDEBUG
    loop_plan,      \* the variants the View is to serve, in order
    loop_readable,  \* how many of them are in the file before its end
    loop_view,      \* the View's cursor: the next variant and the state
    loop_i,         \* the loop counter i
    loop_success,   \* what the latest read_variant returned
    loop_fields,    \* SNPID, rsid and alleles as the latest read_variant left them
    loop_pc,        \* where the loop is
    loop_out,       \* the data lines written to standard output
    loop_ops,       \* the probability-block operations since the latest read_variant
    loop_end,       \* how the loop ended
    extract_bits,   \* extract_encoded_genotype's argument bits
    extract_samples,\* the samples whose probabilities the buffer packs
    extract_i,      \* the sample index i of the next call
    extract_result, \* what the latest call returned
    extract_read    \* the offsets of the bytes the latest call read

index_vars ==
    <<bgen, idx, tmp, opt, pc, rc, log, conn, view, file_pos, variant_count,
      exc, run, idx0, tmp0, opened>>

sel_vars == <<query, plan, out, in_pos, plan_i>>

bgenix_vars == <<index_vars, sel_vars>>

range_vars == <<range_spec, range_variant, range_pc, range_out, range_hit>>
table_vars == <<table_x, table_y, table_last>>
v11_vars == <<v11_view, v11_pc, v11_i, v11_out, v11_log, v11_rc>>
vtab_vars == <<vtab_bits, vtab_x, vtab_y, vtab_last, vtab_prev>>
vcf_vars == <<vcf_view, vcf_pc, vcf_i, vcf_out>>
gt_vars == <<gt_ploidy, gt_alleles, gt_probs, gt_genotype, gt_limits,
    gt_index, gt_met, gt_buffer, gt_pc, gt_visited, gt_wrapped>>
cat_vars == <<cat_files, cat_opt, cat_pc, cat_i, cat_og, cat_result, cat_log,
    cat_rc>>
edit_vars == <<edit_disk, edit_streams, edit_opt, edit_pc, edit_i, edit_log,
    edit_rc>>
loop_vars == <<loop_mode, loop_ndebug, loop_plan, loop_readable, loop_view,
    loop_i, loop_success, loop_fields, loop_pc, loop_out, loop_ops, loop_end>>
extract_vars == <<extract_bits, extract_samples, extract_i, extract_result,
    extract_read>>

\* What the steps of each program leave alone: the state of the others.
outside_bgenix == <<range_vars, table_vars, v11_vars, vtab_vars, vcf_vars,
    gt_vars, cat_vars, edit_vars, loop_vars, extract_vars>>
outside_range == <<bgenix_vars, table_vars, v11_vars, vtab_vars, vcf_vars,
    gt_vars, cat_vars, edit_vars, loop_vars, extract_vars>>
outside_table == <<bgenix_vars, range_vars, v11_vars, vtab_vars, vcf_vars,
    gt_vars, cat_vars, edit_vars, loop_vars, extract_vars>>
outside_v11 == <<bgenix_vars, range_vars, table_vars, vtab_vars, vcf_vars,
    gt_vars, cat_vars, edit_vars, loop_vars, extract_vars>>
outside_vtab == <<bgenix_vars, range_vars, table_vars, v11_vars, vcf_vars,
    gt_vars, cat_vars, edit_vars, loop_vars, extract_vars>>
outside_vcf == <<bgenix_vars, range_vars, table_vars, v11_vars, vtab_vars,
    gt_vars, cat_vars, edit_vars, loop_vars, extract_vars>>
outside_gt == <<bgenix_vars, range_vars, table_vars, v11_vars, vtab_vars,
    vcf_vars, cat_vars, edit_vars, loop_vars, extract_vars>>
outside_cat == <<bgenix_vars, range_vars, table_vars, v11_vars, vtab_vars,
    vcf_vars, gt_vars, edit_vars, loop_vars, extract_vars>>
outside_edit == <<bgenix_vars, range_vars, table_vars, v11_vars, vtab_vars,
    vcf_vars, gt_vars, cat_vars, loop_vars, extract_vars>>
outside_loop == <<bgenix_vars, range_vars, table_vars, v11_vars, vtab_vars,
    vcf_vars, gt_vars, cat_vars, edit_vars, extract_vars>>
outside_extract == <<bgenix_vars, range_vars, table_vars, v11_vars,
    vtab_vars, vcf_vars, gt_vars, cat_vars, edit_vars, loop_vars>>

vars == <<bgenix_vars, range_vars, table_vars, v11_vars, vtab_vars, vcf_vars,
    gt_vars, cat_vars, edit_vars, loop_vars, extract_vars>>

NoException == [type |-> "none", at |-> "none"]

\* Diagnostics: whether the line begins with "!!", and what it is about.
Diag(bang, text) == [bang |-> bang, text |-> text]

IndexOptions == {[mode |-> "index", clobber |-> c] : c \in BOOLEAN}

\* --------------------------------------------------------------- the View
\* View::View: read the offset and the header, leave the cursor at the
\* first variant.
ViewOpen(f) ==
    [position |-> 4 + FileOffset(f), next |-> 1, state |-> "AtVariantId"]

\* View::read_variant: "eof" at the end of the stream, "error" on a record
\* that is cut short, otherwise "ok" with the cursor behind the identifying
\* block.
read_variant_result(f, v) ==
    IF v.next > Len(f.variants) THEN "eof"
    ELSE IF f.bad = v.next THEN "error"
    ELSE "ok"

read_variant(f, v) ==
    [position |-> v.position + f.variants[v.next].id_size,
     next     |-> v.next,
     state    |-> "AtProbBlock"]

\* View::ignore_genotype_data_block: skip the probability block.
ignore_genotype_data_block(f, v) ==
    [position |-> v.position + f.variants[v.next].probs_size,
     next     |-> v.next + 1,
     state    |-> "AtVariantId"]

\* ------------------------------------------------- the database connection
\* Committing a transaction appends the pending rows to the file.
Commit(db, c) == [db EXCEPT !.Variant = db.Variant \o c.pending]

\* VariantRow with the end position bound as the size.
VariantRow_size_is_end(v, start, end) ==
    [chromosome          |-> v.chromosome,
     position            |-> v.position,
     rsid                |-> v.rsid,
     number_of_alleles   |-> Len(v.alleles),
     allele1             |-> v.alleles[1],
     allele2             |-> v.alleles[2],
     file_start_position |-> start,
     size_in_bytes       |-> end]

\* The row create_bgen_index_direct binds for the variant just read.
VariantRow(v, start, end) ==
    [chromosome          |-> v.chromosome,
     position            |-> v.position,
     rsid                |-> v.rsid,
     number_of_alleles   |-> Len(v.alleles),
     allele1             |-> v.alleles[1],
     allele2             |-> v.alleles[2],
     file_start_position |-> start,
     size_in_bytes       |-> end - start]

\* ------------------------------------------------- bgenix -index, by steps
\* The stack unwinds out of create_bgen_index_direct: its connection is
\* closed and what its open transaction holds is lost.
Throw(type, at) ==
    /\ exc' = [type |-> type, at |-> at]
    /\ conn' = ClosedConnection
    /\ pc' = "catch"

\* IndexBgenApplication::setup.  An invocation ends at pc = "exit" with its
\* return code; std::invalid_argument is caught by nobody above setup, so
\* the process is terminated.
setup ==
    /\ pc = "start"
    /\ IF ~bgen.exists
       THEN /\ log' = Append(log, Diag(TRUE, "the BGEN file does not exist"))
            /\ rc' = Terminated
            /\ pc' = "exit"
       ELSE IF opt.mode = "index"
       THEN IF idx # Absent /\ ~opt.clobber
            THEN /\ log' = Append(log, Diag(TRUE, "the index file already exists"))
                 /\ rc' = -1
                 /\ pc' = "exit"
            ELSE /\ pc' = "create_bgen_index_unsafe"
                 /\ UNCHANGED <<log, rc>>
       ELSE /\ pc' = "process_selection_unsafe"
            /\ UNCHANGED <<log, rc>>
    /\ UNCHANGED <<bgen, idx, tmp, opt, conn, view, file_pos, variant_count,
                   exc, run, idx0, tmp0, opened>>
    /\ UNCHANGED sel_vars
    /\ UNCHANGED outside_bgenix

\* create_bgen_index_unsafe up to its try block: the check of <index>.tmp.
\* The exception is thrown outside the try block, so nothing is removed, and
\* create_bgen_index turns it into return code -1.
create_bgen_index_unsafe ==
    /\ pc = "create_bgen_index_unsafe"
    /\ IF tmp # Absent /\ ~opt.clobber
       THEN /\ log' = Append(log, Diag(TRUE, "an incomplete index file already exists"))
            /\ rc' = -1
            /\ pc' = "exit"
       ELSE /\ pc' = "connect"
            /\ UNCHANGED <<log, rc>>
    /\ UNCHANGED <<bgen, idx, tmp, opt, conn, view, file_pos, variant_count,
                   exc, run, idx0, tmp0, opened>>
    /\ UNCHANGED sel_vars
    /\ UNCHANGED outside_bgenix

\* db::Connection::create on <index>.tmp, in mode "rw": the file is created
\* if it is not there, and opened as it is if it is.
Connection_create ==
    /\ pc = "connect"
    /\ \E ok \in BOOLEAN :
         IF ok
         THEN /\ conn' = [open |-> TRUE, transaction |-> FALSE, pending |-> << >>]
              /\ tmp' = IF tmp = Absent THEN EmptyDb ELSE tmp
              /\ opened' = TRUE
              /\ pc' = "setup_index_file"
              /\ UNCHANGED exc
         ELSE /\ Throw("db::Error", "connect")
              /\ UNCHANGED <<tmp, opened>>
    /\ UNCHANGED <<bgen, idx, opt, rc, log, view, file_pos, variant_count,
                   run, idx0, tmp0>>
    /\ UNCHANGED sel_vars
    /\ UNCHANGED outside_bgenix

\* The pragmas, then setup_index_file inside its own transaction, which is
\* committed by transaction.reset().  CREATE TABLE fails on a file that
\* holds the tables already.
setup_index_file ==
    /\ pc = "setup_index_file"
    /\ \E ok \in BOOLEAN :
         IF ok /\ ~tmp.tables
         THEN /\ tmp' = [tmp EXCEPT !.tables = TRUE]
              /\ pc' = "open_view"
              /\ UNCHANGED <<exc, conn>>
         ELSE /\ Throw("db::Error", "setup_index_file")
              /\ UNCHANGED tmp
    /\ UNCHANGED <<bgen, idx, opt, rc, log, view, file_pos, variant_count,
                   run, idx0, tmp0, opened>>
    /\ UNCHANGED sel_vars
    /\ UNCHANGED outside_bgenix

\* The two statements are prepared and the View is opened on the data file.
open_view ==
    /\ pc = "open_view"
    /\ IF bgen.header_ok
       THEN /\ view' = ViewOpen(bgen)
            /\ pc' = "insert_metadata"
            /\ UNCHANGED <<exc, conn>>
       ELSE /\ Throw("BGenError", "open_view")
            /\ UNCHANGED view
    /\ UNCHANGED <<bgen, idx, tmp, opt, rc, log, file_pos, variant_count,
                   run, idx0, tmp0, opened>>
    /\ UNCHANGED sel_vars
    /\ UNCHANGED outside_bgenix

\* The Metadata row is inserted outside any transaction, so it is committed
\* at once; then the first chunk's transaction is opened and the loop's
\* variables are set.
insert_metadata ==
    /\ pc = "insert_metadata"
    /\ \E ok \in BOOLEAN :
         IF ok
         THEN /\ tmp' = [tmp EXCEPT !.Metadata = Append(@, FileMetadata(bgen))]
              /\ conn' = [conn EXCEPT !.transaction = TRUE]
              /\ variant_count' = 0
              /\ file_pos' = view.position
              /\ pc' = "read_variant"
              /\ UNCHANGED exc
         ELSE /\ Throw("db::StatementStepError", "insert_metadata")
              /\ UNCHANGED <<tmp, variant_count, file_pos>>
    /\ UNCHANGED <<bgen, idx, opt, rc, log, view, run, idx0, tmp0, opened>>
    /\ UNCHANGED sel_vars
    /\ UNCHANGED outside_bgenix

\* The loop's test: bgenView.read_variant.  A BGenError is logged by the
\* handler around the loop and thrown on.
loop_read_variant ==
    /\ pc = "read_variant"
    /\ LET r == read_variant_result(bgen, view)
       IN  IF r = "ok"
           THEN /\ view' = read_variant(bgen, view)
                /\ pc' = "loop_body"
                /\ UNCHANGED <<exc, conn, log>>
           ELSE IF r = "eof"
           THEN /\ pc' = "return"
                /\ UNCHANGED <<exc, conn, log, view>>
           ELSE /\ Throw("BGenError", "read_variant")
                /\ log' = Append(log, Diag(TRUE, "an error occurred reading from the input file"))
                /\ UNCHANGED view
    /\ UNCHANGED <<bgen, idx, tmp, opt, rc, file_pos, variant_count,
                   run, idx0, tmp0, opened>>
    /\ UNCHANGED sel_vars
    /\ UNCHANGED outside_bgenix

\* file_pos left where it was.
next_file_pos_stuck(pos, file_end_pos) == pos

\* file_pos for the next iteration.
next_file_pos(pos, file_end_pos) == file_end_pos

\* The test with the chunk of 10000 that the loop's comment speaks of.
chunk_is_full_at_10000(count) == count % 10000 = 0

\* Whether the chunk's transaction is committed after this variant.
chunk_is_full(count) == count % chunk_size = 0

\* The loop's body: skip the probability block, insert the Variant row,
\* count it, commit after every chunk_size-th variant and open the next
\* transaction.  A StatementStepError is logged by the handler around the
\* loop and thrown on.
loop_body ==
    /\ pc = "loop_body"
    /\ LET v == bgen.variants[view.next]
           after == ignore_genotype_data_block(bgen, view)
           file_end_pos == after.position
           row == VariantRow(v, file_pos, file_end_pos)
           inserted == [conn EXCEPT !.pending = Append(@, row)]
       IN  \E ok \in BOOLEAN :
             IF ok
             THEN /\ view' = after
                  /\ variant_count' = variant_count + 1
                  /\ IF chunk_is_full(variant_count + 1)
                     THEN /\ tmp' = Commit(tmp, inserted)
                          /\ conn' = [inserted EXCEPT !.pending = << >>]
                     ELSE /\ conn' = inserted
                          /\ UNCHANGED tmp
                  /\ file_pos' = next_file_pos(file_pos, file_end_pos)
                  /\ pc' = "read_variant"
                  /\ UNCHANGED <<exc, log>>
             ELSE /\ view' = after
                  /\ Throw("db::StatementStepError", "insert_variant")
                  /\ log' = Append(log, Diag(FALSE, "Last observed variant was"))
                  /\ UNCHANGED <<tmp, variant_count, file_pos>>
    /\ UNCHANGED <<bgen, idx, opt, rc, run, idx0, tmp0, opened>>
    /\ UNCHANGED sel_vars
    /\ UNCHANGED outside_bgenix

\* scope_exit with the last transaction rolled back instead of committed.
scope_exit_rollback(db, c) == db

\* What leaving create_bgen_index_direct does to the file: the scoped
\* transaction is destroyed, which commits it.
scope_exit(db, c) == Commit(db, c)

\* create_bgen_index_direct returns the connection.
return_connection ==
    /\ pc = "return"
    /\ tmp' = scope_exit(tmp, conn)
    /\ conn' = [conn EXCEPT !.transaction = FALSE, !.pending = << >>]
    /\ pc' = "rename"
    /\ UNCHANGED <<bgen, idx, opt, rc, log, view, file_pos, variant_count,
                   exc, run, idx0, tmp0, opened>>
    /\ UNCHANGED sel_vars
    /\ UNCHANGED outside_bgenix

\* bfs::rename( index_filename + ".tmp", index_filename ), then the return
\* to main, which returns 0.  A failed rename leaves both files as they are.
rename_index ==
    /\ pc = "rename"
    /\ \E ok \in BOOLEAN :
         IF ok
         THEN /\ idx' = tmp
              /\ tmp' = Absent
              /\ conn' = ClosedConnection
              /\ rc' = 0
              /\ pc' = "exit"
              /\ UNCHANGED exc
         ELSE /\ Throw("filesystem_error", "rename")
              /\ UNCHANGED <<idx, tmp, rc>>
    /\ UNCHANGED <<bgen, opt, log, view, file_pos, variant_count,
                   run, idx0, tmp0, opened>>
    /\ UNCHANGED sel_vars
    /\ UNCHANGED outside_bgenix

\* The handlers removing <index> instead of <index>.tmp.
removed_by_handler_index == "idx"

\* The file the handlers of create_bgen_index_unsafe remove.
removed_by_handler == "tmp"

\* The handlers of create_bgen_index_unsafe (both remove <index>.tmp), then
\* the handler of create_bgen_index, which prints "!! " and the message and
\* halts with return code -1.
catch_unsafe ==
    /\ pc = "catch"
    /\ IF removed_by_handler = "tmp"
       THEN tmp' = Absent /\ UNCHANGED idx
       ELSE idx' = Absent /\ UNCHANGED tmp
    /\ log' = Append(log, Diag(TRUE, exc.type))
    /\ rc' = -1
    /\ pc' = "exit"
    /\ UNCHANGED <<bgen, opt, conn, view, file_pos, variant_count,
                   exc, run, idx0, tmp0, opened>>
    /\ UNCHANGED sel_vars
    /\ UNCHANGED outside_bgenix

\* The process is killed between two steps: what was not committed is lost.
Kill ==
    /\ pc \notin {"exit", "killed"}
    /\ opt.mode = "index"
    /\ pc' = "killed"
    /\ conn' = ClosedConnection
    /\ UNCHANGED <<bgen, idx, tmp, opt, rc, log, view, file_pos, variant_count,
                   exc, run, idx0, tmp0, opened>>
    /\ UNCHANGED sel_vars
    /\ UNCHANGED outside_bgenix

\* The next invocation of bgenix -index on the same data file.
NewRun ==
    /\ pc \in {"exit", "killed"}
    /\ opt.mode = "index"
    /\ run < MaxRuns
    /\ run' = run + 1
    /\ opt' \in IndexOptions
    /\ pc' = "start"
    /\ rc' = NoReturnCode
    /\ log' = << >>
    /\ conn' = ClosedConnection
    /\ view' = NoView
    /\ file_pos' = 0
    /\ variant_count' = 0
    /\ exc' = NoException
    /\ idx0' = idx
    /\ tmp0' = tmp
    /\ opened' = FALSE
    /\ UNCHANGED <<bgen, idx, tmp>>
    /\ UNCHANGED sel_vars
    /\ UNCHANGED outside_bgenix

NoQuery ==
    [inclusion_ranges |-> {}, exclusion_ranges |-> {},
     include_rsids |-> {}, has_include_rsids |-> FALSE,
     exclude_rsids |-> {}, has_exclude_rsids |-> FALSE]

\* The state of the programs an invocation of bgenix does not run.
RangeIdle ==
    /\ range_spec = << >>
    /\ range_variant = << >>
    /\ range_pc = "idle"
    /\ range_out = << >>
    /\ range_hit = FALSE

TableIdle ==
    /\ table_x = 0
    /\ table_y = 0
    /\ table_last = << >>

V11Idle ==
    /\ v11_view = << >>
    /\ v11_pc = "idle"
    /\ v11_i = 0
    /\ v11_out = << >>
    /\ v11_log = << >>
    /\ v11_rc = NoReturnCode

VtabIdle ==
    /\ vtab_bits = 0
    /\ vtab_x = 0
    /\ vtab_y = 0
    /\ vtab_last = << >>
    /\ vtab_prev = << >>

VcfIdle ==
    /\ vcf_view = << >>
    /\ vcf_pc = "idle"
    /\ vcf_i = 0
    /\ vcf_out = << >>

GtIdle ==
    /\ gt_ploidy = 0
    /\ gt_alleles = 0
    /\ gt_probs = << >>
    /\ gt_genotype = << >>
    /\ gt_limits = << >>
    /\ gt_index = 0
    /\ gt_met = FALSE
    /\ gt_buffer = << >>
    /\ gt_pc = "idle"
    /\ gt_visited = << >>
    /\ gt_wrapped = FALSE

CatIdle ==
    /\ cat_files = << >>
    /\ cat_opt = << >>
    /\ cat_pc = "idle"
    /\ cat_i = 0
    /\ cat_og = << >>
    /\ cat_result = << >>
    /\ cat_log = << >>
    /\ cat_rc = NoReturnCode

EditIdle ==
    /\ edit_disk = << >>
    /\ edit_streams = << >>
    /\ edit_opt = << >>
    /\ edit_pc = "idle"
    /\ edit_i = 0
    /\ edit_log = << >>
    /\ edit_rc = NoReturnCode

LoopIdle ==
    /\ loop_mode = "none"
    /\ loop_ndebug = FALSE
    /\ loop_plan = << >>
    /\ loop_readable = 0
    /\ loop_view = << >>
    /\ loop_i = 0
    /\ loop_success = FALSE
    /\ loop_fields = << >>
    /\ loop_pc = "idle"
    /\ loop_out = << >>
    /\ loop_ops = 0
    /\ loop_end = "none"

ExtractIdle ==
    /\ extract_bits = 0
    /\ extract_samples = << >>
    /\ extract_i = 0
    /\ extract_result = 0
    /\ extract_read = {}

\* bgenix not running.
BgenixIdle ==
    /\ bgen = MissingFile
    /\ idx = Absent
    /\ tmp = Absent
    /\ opt = [mode |-> "none", clobber |-> FALSE]
    /\ pc = "idle"
    /\ rc = NoReturnCode
    /\ log = << >>
    /\ conn = ClosedConnection
    /\ view = NoView
    /\ file_pos = 0
    /\ variant_count = 0
    /\ exc = NoException
    /\ run = 0
    /\ idx0 = Absent
    /\ tmp0 = Absent
    /\ opened = FALSE
    /\ query = NoQuery
    /\ plan = << >>
    /\ out = << >>
    /\ in_pos = 0
    /\ plan_i = 0

OutsideBgenixIdle == RangeIdle /\ TableIdle /\ V11Idle /\ VtabIdle /\ VcfIdle /\ GtIdle /\ CatIdle /\ EditIdle /\ LoopIdle /\ ExtractIdle
OutsideRangeIdle == BgenixIdle /\ TableIdle /\ V11Idle /\ VtabIdle /\ VcfIdle /\ GtIdle /\ CatIdle /\ EditIdle /\ LoopIdle /\ ExtractIdle
OutsideTableIdle == BgenixIdle /\ RangeIdle /\ V11Idle /\ VtabIdle /\ VcfIdle /\ GtIdle /\ CatIdle /\ EditIdle /\ LoopIdle /\ ExtractIdle
OutsideV11Idle == BgenixIdle /\ RangeIdle /\ TableIdle /\ VtabIdle /\ VcfIdle /\ GtIdle /\ CatIdle /\ EditIdle /\ LoopIdle /\ ExtractIdle
OutsideVtabIdle == BgenixIdle /\ RangeIdle /\ TableIdle /\ V11Idle /\ VcfIdle /\ GtIdle /\ CatIdle /\ EditIdle /\ LoopIdle /\ ExtractIdle
OutsideVcfIdle == BgenixIdle /\ RangeIdle /\ TableIdle /\ V11Idle /\ VtabIdle /\ GtIdle /\ CatIdle /\ EditIdle /\ LoopIdle /\ ExtractIdle
OutsideGtIdle == BgenixIdle /\ RangeIdle /\ TableIdle /\ V11Idle /\ VtabIdle /\ VcfIdle /\ CatIdle /\ EditIdle /\ LoopIdle /\ ExtractIdle
OutsideCatIdle == BgenixIdle /\ RangeIdle /\ TableIdle /\ V11Idle /\ VtabIdle /\ VcfIdle /\ GtIdle /\ EditIdle /\ LoopIdle /\ ExtractIdle
OutsideEditIdle == BgenixIdle /\ RangeIdle /\ TableIdle /\ V11Idle /\ VtabIdle /\ VcfIdle /\ GtIdle /\ CatIdle /\ LoopIdle /\ ExtractIdle
OutsideLoopIdle == BgenixIdle /\ RangeIdle /\ TableIdle /\ V11Idle /\ VtabIdle /\ VcfIdle /\ GtIdle /\ CatIdle /\ EditIdle /\ ExtractIdle
OutsideExtractIdle == BgenixIdle /\ RangeIdle /\ TableIdle /\ V11Idle /\ VtabIdle /\ VcfIdle /\ GtIdle /\ CatIdle /\ EditIdle /\ LoopIdle

InitCommon ==
    /\ OutsideBgenixIdle
    /\ pc = "start"
    /\ rc = NoReturnCode
    /\ log = << >>
    /\ conn = ClosedConnection
    /\ view = NoView
    /\ file_pos = 0
    /\ variant_count = 0
    /\ exc = NoException
    /\ run = 1
    /\ idx0 = idx
    /\ tmp0 = tmp
    /\ opened = FALSE
    /\ query = NoQuery
    /\ plan = << >>
    /\ out = << >>
    /\ in_pos = 0
    /\ plan_i = 0

Init ==
    /\ bgen \in IndexFiles
    /\ idx \in {Absent, OldIndex}
    /\ tmp \in {Absent, EmptyDb, StaleTmp}
    /\ opt \in IndexOptions
    /\ InitCommon

Next ==
    \/ setup
    \/ create_bgen_index_unsafe
    \/ Connection_create
    \/ setup_index_file
    \/ open_view
    \/ insert_metadata
    \/ loop_read_variant
    \/ loop_body
    \/ return_connection
    \/ rename_index
    \/ catch_unsafe
    \/ Kill
    \/ NewRun

Spec == Init /\ [][Next]_vars

\* ------------------------------------------------ properties of the build
\* The index a complete build over data file f holds, stated from the file:
\* one Metadata row, and for each variant a row with the offset at which its
\* record begins and the record's length.
ExpectedRow(f, i) ==
    [chromosome          |-> f.variants[i].chromosome,
     position            |-> f.variants[i].position,
     rsid                |-> f.variants[i].rsid,
     number_of_alleles   |-> Len(f.variants[i].alleles),
     allele1             |-> f.variants[i].alleles[1],
     allele2             |-> f.variants[i].alleles[2],
     file_start_position |-> TrueStart(f, i),
     size_in_bytes       |-> f.variants[i].id_size + f.variants[i].probs_size]

CompleteIndex(f) ==
    [exists   |-> TRUE,
     tables   |-> TRUE,
     Metadata |-> <<FileMetadata(f)>>,
     Variant  |-> [i \in 1..Len(f.variants) |-> ExpectedRow(f, i)]]

IndexRunEnded == opt.mode = "index" /\ pc = "exit"

\* C1: the file at the index path is never a partially built index: in
\* every state it is absent, or the index the invocation found (unchanged),
\* or the complete index of the data file; and the only step that changes it
\* is the rename of the finished, fully committed <index>.tmp.
C1_IndexNeverPartial ==
    /\ [](idx = Absent \/ idx = idx0 \/ idx = CompleteIndex(bgen))
    /\ [][idx' # idx =>
            /\ pc = "rename" /\ pc' = "exit" /\ rc' = 0
            /\ idx' = tmp /\ ~tmp'.exists
            /\ conn.pending = << >>]_vars

\* A build of a file of more than chunk_size variants is killed after its
\* first chunk was committed; the old index is still in place.
C1_Witness ==
    /\ pc = "killed"
    /\ Len(bgen.variants) > chunk_size
    /\ Len(tmp.Variant) = chunk_size
    /\ idx = OldIndex

\* C2: when a build that failed after the check of <index>.tmp has ended,
\* <index>.tmp does not exist and the return code is -1.
C2_FailedBuildRemovesTmp ==
    (IndexRunEnded /\ exc.type # "none") => (~tmp.exists /\ rc = -1)

\* The rename failed, with every row committed to <index>.tmp.
C2_Witness ==
    /\ IndexRunEnded
    /\ exc.at = "rename"
    /\ Len(bgen.variants) > 0
    /\ ~tmp.exists
    /\ rc = -1

\* C3 (as claimed): without -clobber, an invocation that finds <index> or
\* <index>.tmp changes neither, opens no connection and ends with return
\* code -1.
C3_ExistingIndexWithoutClobber ==
    (opt.mode = "index" /\ ~opt.clobber /\ (idx0.exists \/ tmp0.exists))
        => /\ idx = idx0
           /\ tmp = tmp0
           /\ ~opened
           /\ pc = "exit" => rc = -1

\* C4: after a successful build the index holds one Metadata row with the
\* data file's size and one Variant row per variant; the rows tile the
\* variant stream: the first begins right after the header and the sample
\* block, each begins where the one before ends, the last ends at the end of
\* the file, and row i is at variant i's record.
C4_SuccessfulBuildIsExact ==
    (IndexRunEnded /\ rc = 0) =>
        LET rows == idx.Variant
            n == Len(bgen.variants)
        IN  /\ idx.exists /\ idx.tables
            /\ Len(idx.Metadata) = 1
            /\ idx.Metadata[1].size = FileSize(bgen)
            /\ Len(rows) = n
            /\ \A i \in 1..n :
                 /\ rows[i].file_start_position = TrueStart(bgen, i)
                 /\ rows[i].size_in_bytes
                      = bgen.variants[i].id_size + bgen.variants[i].probs_size
            /\ \A i \in 1..(n - 1) :
                 rows[i].file_start_position + rows[i].size_in_bytes
                    = rows[i + 1].file_start_position
            /\ n > 0 => /\ rows[1].file_start_position = 4 + FileOffset(bgen)
                        /\ rows[n].file_start_position + rows[n].size_in_bytes
                             = FileSize(bgen)
            /\ idx = CompleteIndex(bgen)

\* A successful build over a file with a sample block and more than one
\* variant.
C4_Witness ==
    /\ IndexRunEnded /\ rc = 0
    /\ Len(idx.Variant) = 3
    /\ bgen.sample_block # << >>

\* ================================================= bgenix selection runs
\* ---------------------------------------------- data files that are queried
Pool ==
    {[SNPID |-> "s1", rsid |-> "rs1", chromosome |-> "01", position |-> 100,
      alleles |-> <<"A", "G">>, id_size |-> 29, probs_size |-> 12],
     [SNPID |-> "", rsid |-> "rs2", chromosome |-> "01", position |-> 200,
      alleles |-> <<"A", "G">>, id_size |-> 27, probs_size |-> 13],
     [SNPID |-> "", rsid |-> "rs1", chromosome |-> "02", position |-> 200,
      alleles |-> <<"C", "T">>, id_size |-> 27, probs_size |-> 12],
     [SNPID |-> "", rsid |-> "", chromosome |-> "01", position |-> 250,
      alleles |-> <<"A", "C", "T">>, id_size |-> 29, probs_size |-> 14]}

\* Variant streams of at most MaxSelVariants different variants, in any
\* order.
SelStreams ==
    {s \in UNION {[1..n -> Pool] : n \in 0..MaxSelVariants} :
        \A i, j \in 1..Len(s) : i # j => s[i] # s[j]}

\* A plain file, and one with a sample block, free data, a zero magic and a
\* header whose (advisory) variant count is not the stream's.
SelFile(stream, rich) ==
    [exists          |-> TRUE,
     filename        |-> "f.bgen",
     last_write_time |-> 1,
     header_ok       |-> TRUE,
     context         |->
        IF rich
        THEN [number_of_variants |-> Len(stream) + 300,
              number_of_samples  |-> 1,
              magic              |-> <<0, 0, 0, 0>>,
              free_data          |-> <<7>>,
              flags              |-> FlagsWord(e_Layout2 + e_ZlibCompression, TRUE)]
        ELSE BasicContext(Len(stream), FALSE),
     sample_block    |-> IF rich THEN SampleBlock ELSE << >>,
     variants        |-> stream,
     bad             |-> 0]

SelectFiles == {SelFile(s, rich) : s \in SelStreams, rich \in BOOLEAN}

\* What may happen to the data file after its index was built: nothing, a
\* touch, a move, an edit of its header that keeps its size, a new variant
\* at its end.
Modified(f) ==
    {f,
     [f EXCEPT !.last_write_time = 2],
     [f EXCEPT !.filename = "moved.bgen"],
     [f EXCEPT !.context.number_of_variants = @ + 1, !.last_write_time = 2],
     [f EXCEPT !.variants = Append(@, IndexedVariant(Len(f.variants) + 1, 1)),
               !.last_write_time = 2]}

\* An index of f written by a version of bgenix that stored no fingerprint.
LegacyIndex(f) == [CompleteIndex(f) EXCEPT !.Metadata = << >>]

\* ----------------------------------------------------- the command line
\* A range argument <chr>:<pos1>-<pos2>; Omitted stands for a position that
\* is left out.  A malformed argument has no ':' or no '-'.
Omitted == -1
RangeSpec(chr, p1, p2) == [malformed |-> FALSE, chromosome |-> chr, pos1 |-> p1, pos2 |-> p2]
MalformedSpec == [malformed |-> TRUE, chromosome |-> "", pos1 |-> Omitted, pos2 |-> Omitted]

\* An option that takes values: whether it was given, and its values once
\* collect_unique_ids has sorted them and dropped the repeated ones.
NotGiven == [given |-> FALSE, values |-> {}]
Given(values) == [given |-> TRUE, values |-> values]

InclRangeArgs == SUBSET {RangeSpec("01", 150, 250), RangeSpec("01", Omitted, 100)}
ExclRangeArgs == {{}, {RangeSpec("02", 200, Omitted)}, {RangeSpec("01", 200, 200)}}
InclRsidArgs == {NotGiven, Given({}), Given({"rs1"})}
ExclRsidArgs == {NotGiven, Given({"rs2"})}

SelectOptions ==
    {[mode |-> "select", clobber |-> FALSE, transcode |-> "none",
      incl_range |-> Given(ir), excl_range |-> Given(er),
      incl_rsids |-> ii, excl_rsids |-> ei] :
        ir \in InclRangeArgs, er \in ExclRangeArgs,
        ii \in InclRsidArgs, ei \in ExclRsidArgs}
    \cup
    {[mode |-> "select", clobber |-> FALSE, transcode |-> "none",
      incl_range |-> Given(ir), excl_range |-> NotGiven,
      incl_rsids |-> NotGiven, excl_rsids |-> NotGiven] :
        ir \in {{MalformedSpec}, {MalformedSpec, RangeSpec("01", 150, 250)}}}

\* ------------------------------------------------------- the index query
\* IndexBgenApplication::parse_range of a well-formed argument: a position
\* left out becomes 0 or the largest int.
parse_range(spec) ==
    [chromosome |-> spec.chromosome,
     start      |-> IF spec.pos1 = Omitted THEN 0 ELSE spec.pos1,
     end        |-> IF spec.pos2 = Omitted THEN INT_MAX ELSE spec.pos2]

\* SqliteIndexQuery: the predicates accumulate in the query.
include_range(q, range) == [q EXCEPT !.inclusion_ranges = @ \cup {range}]
exclude_range(q, range) == [q EXCEPT !.exclusion_ranges = @ \cup {range}]
include_rsids(q, ids) ==
    [q EXCEPT !.include_rsids = @ \cup ids, !.has_include_rsids = TRUE]
exclude_rsids(q, ids) ==
    [q EXCEPT !.exclude_rsids = @ \cup ids, !.has_exclude_rsids = TRUE]

RECURSIVE FoldRanges(_, _, _)
FoldRanges(q, specs, exclude) ==
    IF specs = {} THEN q
    ELSE LET e == CHOOSE x \in specs : TRUE
         IN  FoldRanges(IF exclude THEN exclude_range(q, parse_range(e))
                        ELSE include_range(q, parse_range(e)),
                        specs \ {e}, exclude)

\* assemble_query with the -excl-rsids added as ids to include.
assemble_query_excl_as_incl(o) ==
    LET q1 == IF o.incl_range.given
              THEN FoldRanges(NoQuery, o.incl_range.values, FALSE) ELSE NoQuery
        q2 == IF o.excl_range.given
              THEN FoldRanges(q1, o.excl_range.values, TRUE) ELSE q1
        q3 == IF o.incl_rsids.given
              THEN include_rsids(q2, o.incl_rsids.values) ELSE q2
        q4 == IF o.excl_rsids.given
              THEN include_rsids(q3, o.excl_rsids.values) ELSE q3
    IN  q4

\* The query create_index_query assembles from the options: every
\* -incl-range and -excl-range argument is parsed and added, then the
\* -incl-rsids and the -excl-rsids.
assemble_query(o) ==
    LET q1 == IF o.incl_range.given
              THEN FoldRanges(NoQuery, o.incl_range.values, FALSE) ELSE NoQuery
        q2 == IF o.excl_range.given
              THEN FoldRanges(q1, o.excl_range.values, TRUE) ELSE q1
        q3 == IF o.incl_rsids.given
              THEN include_rsids(q2, o.incl_rsids.values) ELSE q2
        q4 == IF o.excl_rsids.given
              THEN exclude_rsids(q3, o.excl_rsids.values) ELSE q3
    IN  q4

InRange(row, range) ==
    /\ row.chromosome = range.chromosome
    /\ range.start <= row.position
    /\ row.position <= range.end

RECURSIVE SortByStart(_)
SortByStart(S) ==
    IF S = {} THEN << >>
    ELSE LET m == CHOOSE x \in S :
                    \A y \in S : x[1] < y[1] \/ (x[1] = y[1] /\ x[2] <= y[2])
         IN  <<m>> \o SortByStart(S \ {m})

\* SqliteIndexQuery::initialise: the base set is the union of the include
\* predicates' matches, or every row if there is none; the rows matching an
\* exclude predicate are taken away; what is left is sorted by
\* file_start_position, identical <<file_start, length>> pairs once.
initialise(q, rows) ==
    LET has_inclusion == q.inclusion_ranges # {} \/ q.has_include_rsids
        included(r) ==
            \/ ~has_inclusion
            \/ \E g \in q.inclusion_ranges : InRange(r, g)
            \/ r.rsid \in q.include_rsids
        excluded(r) ==
            \/ \E g \in q.exclusion_ranges : InRange(r, g)
            \/ r.rsid \in q.exclude_rsids
    IN  SortByStart({<<rows[i].file_start_position, rows[i].size_in_bytes>> :
                        i \in {k \in 1..Len(rows) :
                                 included(rows[k]) /\ ~excluded(rows[k])}})

\* SqliteIndexQuery::file_metadata: the fingerprint stored in the index, if
\* it stores one.
index_file_metadata(db) ==
    IF db.Metadata = << >>
    THEN [present |-> FALSE, value |-> FileMetadata(MissingFile)]
    ELSE [present |-> TRUE, value |-> db.Metadata[1]]

\* check_metadata comparing the last write time as well.
check_metadata_with_time(file, index) ==
    IF index.present
    THEN IF file.size # index.value.size THEN FALSE
         ELSE IF file.first_bytes # index.value.first_bytes THEN FALSE
         ELSE IF file.last_write_time # index.value.last_write_time THEN FALSE
         ELSE TRUE
    ELSE TRUE

\* check_metadata: TRUE if it returns, FALSE if it throws.
check_metadata(file, index) ==
    IF index.present
    THEN IF file.size # index.value.size THEN FALSE
         ELSE IF file.first_bytes # index.value.first_bytes THEN FALSE
         ELSE TRUE
    ELSE TRUE

\* ------------------------------------------- bgenix selection, by steps
\* The invocation ends with return code `code` after printing `diag`.
Halt(code, diag) ==
    /\ rc' = code
    /\ log' = Append(log, diag)
    /\ pc' = "exit"

\* process_selection_unsafe: the View is opened on the data file.  A
\* BGenError is no std::invalid_argument: process_selection throws it on and
\* nobody catches it.
process_selection_unsafe ==
    /\ pc = "process_selection_unsafe"
    /\ IF bgen.header_ok
       THEN /\ view' = ViewOpen(bgen)
            /\ pc' = "create_index_query"
            /\ UNCHANGED <<rc, log>>
       ELSE /\ Halt(Terminated, Diag(FALSE, "terminate called"))
            /\ UNCHANGED view
    /\ UNCHANGED <<bgen, idx, tmp, opt, conn, file_pos, variant_count,
                   exc, run, idx0, tmp0, opened>>
    /\ UNCHANGED sel_vars
    /\ UNCHANGED outside_bgenix

HasMalformedRange(o) ==
    \/ o.incl_range.given /\ \E e \in o.incl_range.values : e.malformed
    \/ o.excl_range.given /\ \E e \in o.excl_range.values : e.malformed

\* create_index_query: open the index, add the predicates of the command
\* line, materialize the plan.  An index that cannot be opened is reported
\* with "!!" and ends the run with -1; the std::invalid_argument of
\* parse_range is caught by process_selection, which prints its text (the
\* argument) and ends the run with -1.
create_index_query ==
    /\ pc = "create_index_query"
    /\ IF ~idx.exists \/ ~idx.tables
       THEN /\ Halt(-1, Diag(TRUE, "Error opening index file"))
            /\ UNCHANGED <<query, plan>>
       ELSE IF HasMalformedRange(opt)
       THEN /\ Halt(-1, Diag(FALSE, "spec="))
            /\ UNCHANGED <<query, plan>>
       ELSE /\ query' = assemble_query(opt)
            /\ plan' = initialise(query', idx.Variant)
            /\ pc' = "dispatch"
            /\ UNCHANGED <<rc, log>>
    /\ UNCHANGED <<bgen, idx, tmp, opt, conn, view, file_pos, variant_count,
                   exc, run, idx0, tmp0, opened, out, in_pos, plan_i>>
    /\ UNCHANGED outside_bgenix

\* process_selection_unsafe, not transcoding: check_metadata, whose
\* std::invalid_argument (its text begins with "!!") is printed by
\* process_selection, which ends the run with -1.
check_metadata_step ==
    /\ pc = "dispatch"
    /\ opt.transcode = "none"
    /\ IF check_metadata(FileMetadata(bgen), index_file_metadata(idx))
       THEN /\ pc' = "notranscode"
            /\ UNCHANGED <<rc, log>>
       ELSE Halt(-1, Diag(TRUE, "Do you need to recreate the index?"))
    /\ UNCHANGED <<bgen, idx, tmp, opt, conn, view, file_pos, variant_count,
                   exc, run, idx0, tmp0, opened>>
    /\ UNCHANGED sel_vars
    /\ UNCHANGED outside_bgenix

\* The header written with the variant count it was read with.
output_context_unadjusted(read, count) == read

\* The context process_selection_notranscode writes: the one it read, with
\* the plan's size as number_of_variants.
output_context(read, count) == [read EXCEPT !.number_of_variants = count]

\* process_selection_notranscode up to its loop: read the offset and the
\* header from the data file, write the offset and the header with the
\* plan's size as number_of_variants, then copy offset - header_size bytes
\* from where the read of the header ended.
notranscode_header ==
    /\ pc = "notranscode"
    /\ LET bytes == FileBytes(bgen)
           offset == read_little_endian_integer(bytes, 1, 4)
           read == read_header_block(bytes, 5)
           context == output_context(read, Len(plan))
           pos == 4 + header_size(read)
           count == offset - header_size(context)
       IN  /\ out' = write_little_endian_integer(offset, 4)
                     \o write_header_block(context)
                     \o SubSeq(bytes, pos + 1, pos + count)
           /\ in_pos' = pos + count
    /\ plan_i' = 0
    /\ pc' = "notranscode_loop"
    /\ UNCHANGED <<bgen, idx, tmp, opt, rc, log, conn, view, file_pos,
                   variant_count, exc, run, idx0, tmp0, opened, query, plan>>
    /\ UNCHANGED outside_bgenix

\* One turn of the loop: seek to the plan entry's start and copy its length;
\* after the last one, the run ends with return code 0.
notranscode_loop ==
    /\ pc = "notranscode_loop"
    /\ IF plan_i < Len(plan)
       THEN LET range == plan[plan_i + 1]
            IN  /\ out' = out \o SubSeq(FileBytes(bgen), range[1] + 1,
                                         range[1] + range[2])
                /\ in_pos' = range[1] + range[2]
                /\ plan_i' = plan_i + 1
                /\ UNCHANGED <<pc, rc>>
       ELSE /\ rc' = 0
            /\ pc' = "exit"
            /\ UNCHANGED <<out, in_pos, plan_i>>
    /\ UNCHANGED <<bgen, idx, tmp, opt, log, conn, view, file_pos,
                   variant_count, exc, run, idx0, tmp0, opened, query, plan>>
    /\ UNCHANGED outside_bgenix

NoPredicates(o) ==
    /\ o.incl_range.values = {} /\ o.excl_range.values = {}
    /\ ~o.incl_rsids.given /\ ~o.excl_rsids.given

\* After the run that built (or failed to build) the index, a selection run
\* on the data file, which may have changed since.
NewRunSelect ==
    /\ pc = "exit"
    /\ opt.mode = "index"
    /\ run' = run + 1
    /\ \E o \in SelectOptions, f \in Modified(bgen) :
         /\ (f # bgen => NoPredicates(o))
         /\ opt' = o
         /\ bgen' = f
    /\ pc' = "start"
    /\ rc' = NoReturnCode
    /\ log' = << >>
    /\ conn' = ClosedConnection
    /\ view' = NoView
    /\ file_pos' = 0
    /\ variant_count' = 0
    /\ exc' = NoException
    /\ idx0' = idx
    /\ tmp0' = tmp
    /\ opened' = FALSE
    /\ UNCHANGED <<idx, tmp>>
    /\ UNCHANGED sel_vars
    /\ UNCHANGED outside_bgenix

InitSelect ==
    /\ bgen \in SelectFiles
               \cup {[SelFile(<< >>, FALSE) EXCEPT !.header_ok = FALSE]}
    /\ idx \in {Absent, LegacyIndex(bgen)}
    /\ tmp = Absent
    /\ opt \in IndexOptions
    /\ InitCommon

NextSelect ==
    \/ setup
    \/ create_bgen_index_unsafe
    \/ Connection_create
    \/ setup_index_file
    \/ open_view
    \/ insert_metadata
    \/ loop_read_variant
    \/ loop_body
    \/ return_connection
    \/ rename_index
    \/ catch_unsafe
    \/ NewRunSelect
    \/ process_selection_unsafe
    \/ create_index_query
    \/ check_metadata_step
    \/ notranscode_header
    \/ notranscode_loop

SpecSelect == InitSelect /\ [][NextSelect]_vars

\* --------------------------------------------- properties of the selection
SelectRun == opt.mode = "select"

\* The query has been initialised and the plan materialized.
QueryInitialised ==
    /\ SelectRun
    /\ \/ pc \in {"dispatch", "notranscode", "notranscode_loop"}
       \/ pc = "exit" /\ rc = 0

\* check_metadata has returned / has thrown.
PassedCheck ==
    /\ SelectRun
    /\ \/ pc \in {"notranscode", "notranscode_loop"}
       \/ pc = "exit" /\ rc = 0
FailedCheck ==
    /\ SelectRun /\ pc = "exit" /\ log # << >>
    /\ log[Len(log)].text = "Do you need to recreate the index?"

\* The index stores a fingerprint whose size or first bytes are not the data
\* file's.
FingerprintMismatch ==
    /\ idx.Metadata # << >>
    /\ \/ idx.Metadata[1].size # FileSize(bgen)
       \/ idx.Metadata[1].first_bytes
            # SubSeq(FileBytes(bgen), 1, Min(FirstBytesLen, FileSize(bgen)))

\* C5: check_metadata throws exactly when the index stores a fingerprint
\* whose size or first bytes differ from the data file's (so a different
\* last write time or filename alone is tolerated), and without transcoding
\* nothing is written to the output before the check has returned.
C5_CheckMetadata ==
    /\ PassedCheck => ~FingerprintMismatch
    /\ FailedCheck => FingerprintMismatch
    /\ (SelectRun /\ out # << >>) => PassedCheck

\* The check returned for a file that was touched since it was indexed.
C5_Witness ==
    /\ PassedCheck
    /\ idx.Metadata # << >>
    /\ idx.Metadata[1].last_write_time # bgen.last_write_time
    /\ out # << >>

\* C6 (as claimed): every invocation ends with return code 0, or with
\* return code -1 after a diagnostic that begins with "!!".
C6_ReturnCodes ==
    pc = "exit" =>
        \/ rc = 0
        \/ rc = -1 /\ \E i \in 1..Len(log) : log[i].bang

\* The bytes of the plan's entries, one after the other.
PlanBytes(bytes, p) ==
    Concat([i \in 1..Len(p) |-> SubSeq(bytes, p[i][1] + 1, p[i][1] + p[i][2])])

\* bytes with the number_of_variants field (bytes 8..11 of the file) zeroed.
WithoutVariantCount(bytes) ==
    [k \in 1..Len(bytes) |-> IF k \in 9..12 THEN 0 ELSE bytes[k]]

\* C7: without transcoding the output is the input's offset field, the
\* input's header with number_of_variants replaced by the plan's size, the
\* bytes between the header and the variant stream, and then the bytes of
\* each plan entry in plan order; with no predicates and an index of every
\* variant it is the input, but for the number_of_variants field.
C7_NoTranscodeOutput ==
    (SelectRun /\ pc = "exit" /\ rc = 0) =>
        LET bytes == FileBytes(bgen)
            hs == 20 + Len(bgen.context.free_data)
            offset == hs + Len(bgen.sample_block)
        IN  /\ out = SubSeq(bytes, 1, 8)
                     \o write_little_endian_integer(Len(plan), 4)
                     \o SubSeq(bytes, 13, 4 + hs)
                     \o SubSeq(bytes, 4 + hs + 1, 4 + offset)
                     \o PlanBytes(bytes, plan)
            /\ (NoPredicates(opt) /\ idx.Variant = CompleteIndex(bgen).Variant)
                 => WithoutVariantCount(out) = WithoutVariantCount(bytes)

\* A filtered copy of a file with a sample block and free data.
C7_Witness ==
    /\ SelectRun /\ pc = "exit" /\ rc = 0
    /\ bgen.sample_block # << >>
    /\ Len(plan) = 2
    /\ Len(bgen.variants) = 3

\* Whether a variant is matched by a range argument as it was typed.
SpecMatches(e, row) ==
    /\ row.chromosome = e.chromosome
    /\ e.pos1 = Omitted \/ e.pos1 <= row.position
    /\ e.pos2 = Omitted \/ row.position <= e.pos2

Selected(o, row) ==
    /\ \/ o.incl_range.values = {} /\ ~o.incl_rsids.given
       \/ \E e \in o.incl_range.values : SpecMatches(e, row)
       \/ o.incl_rsids.given /\ row.rsid \in o.incl_rsids.values
    /\ ~ \E e \in o.excl_range.values : SpecMatches(e, row)
    /\ ~ (o.excl_rsids.given /\ row.rsid \in o.excl_rsids.values)

InPlan(row) ==
    \E k \in 1..Len(plan) :
        plan[k] = <<row.file_start_position, row.size_in_bytes>>

\* C8: a variant of the index is in the plan iff (no include predicate was
\* given or it matches an include range or an include rsid) and it matches
\* no exclude range and no exclude rsid; the plan holds nothing else.
C8_PlanMembership ==
    QueryInitialised =>
        /\ \A i \in 1..Len(idx.Variant) :
             InPlan(idx.Variant[i]) <=> Selected(opt, idx.Variant[i])
        /\ \A k \in 1..Len(plan) :
             \E i \in 1..Len(idx.Variant) :
                plan[k] = <<idx.Variant[i].file_start_position,
                            idx.Variant[i].size_in_bytes>>

\* No include predicate and an exclude predicate: all but the excluded.
C8_Witness ==
    /\ QueryInitialised
    /\ opt.incl_range.values = {} /\ ~opt.incl_rsids.given
    /\ opt.excl_rsids.given
    /\ Len(idx.Variant) = 3
    /\ Len(plan) = 2

\* C9: the plan is strictly increasing in file_start, holds no pair twice,
\* and no two of its byte ranges overlap.
C9_PlanSorted ==
    QueryInitialised =>
        \A i, j \in 1..Len(plan) :
            i < j => /\ plan[i][1] < plan[j][1]
                     /\ plan[i] # plan[j]
                     /\ plan[i][1] + plan[i][2] <= plan[j][1]

\* A plan of three entries over an index that this build wrote.
C9_Witness ==
    /\ QueryInitialised
    /\ idx.Metadata # << >>
    /\ Len(plan) = 3
    /\ opt.incl_range.values # {}

\* C10: a query with no predicates over the index that bgenix -index built
\* of the data file yields every variant once, in the order of the file.
C10_IndexThenQuery ==
    (QueryInitialised /\ NoPredicates(opt)
        /\ idx.Metadata # << >> /\ ~FingerprintMismatch) =>
        plan = [i \in 1..Len(bgen.variants) |->
                   <<TrueStart(bgen, i),
                     bgen.variants[i].id_size + bgen.variants[i].probs_size>>]

\* The second run queries the index the first run built, without
\* predicates; the file's variants are not in the order of their positions.
C10_Witness ==
    /\ QueryInitialised /\ NoPredicates(opt)
    /\ run = 2
    /\ idx.Metadata # << >> /\ ~FingerprintMismatch
    /\ Len(plan) = 3
    /\ bgen.variants[1].position > bgen.variants[2].position

\* ------------------------------------------------- parse_range on its text

\* A 32-bit quantity as its two 16-bit halves, so that positions above
\* 2^31 - 1 can be compared: the value is hi * 65536 + lo.
Wide(h, l) == [hi |-> h, lo |-> l]
WideOf(n) == Wide(n \div 65536, n % 65536)
WideLeq(a, b) == a.hi < b.hi \/ (a.hi = b.hi /\ a.lo <= b.lo)

Digits == <<"0", "1", "2", "3", "4", "5", "6", "7", "8", "9">>
DigitValue(ch) == (CHOOSE d \in 1..10 : Digits[d] = ch) - 1
IsDigit(ch) == \E d \in 1..10 : Digits[d] = ch

\* std::string::npos, and std::string::find returning a 0-based index.
npos == -1
find(s, ch) ==
    IF \E i \in 1..Len(s) : s[i] = ch
    THEN (CHOOSE i \in 1..Len(s) : s[i] = ch /\ \A j \in 1..(i - 1) : s[j] # ch) - 1
    ELSE npos

\* std::string::substr( pos, n ), with pos 0-based and n cut at the end.
substr(s, pos, n) == SubSeq(s, pos + 1, Min(Len(s), pos + n))

\* std::stoi in base 10: an optional sign, then the longest run of digits;
\* std::invalid_argument if there is no digit, std::out_of_range if the value
\* does not fit an int.  What follows the digits is ignored.
RECURSIVE stoi_digits(_, _, _)
stoi_digits(s, i, acc) ==
    IF i > Len(s) \/ ~IsDigit(s[i]) THEN [status |-> "ok", value |-> acc]
    ELSE LET low == acc.lo * 10 + DigitValue(s[i])
             high == acc.hi * 10 + (low \div 65536)
         IN  IF high > 32768 \/ (high = 32768 /\ low % 65536 > 0)
             THEN [status |-> "out_of_range", value |-> Wide(0, 0)]
             ELSE stoi_digits(s, i + 1, Wide(high, low % 65536))

stoi(s) ==
    LET signed == Len(s) > 0 /\ s[1] \in {"-", "+"}
        first == IF signed THEN 2 ELSE 1
        r == stoi_digits(s, first, Wide(0, 0))
    IN  IF first > Len(s) \/ ~IsDigit(s[first])
        THEN [status |-> "invalid_argument", negative |-> FALSE, value |-> Wide(0, 0)]
        ELSE IF r.status = "ok" /\ r.value = Wide(32768, 0) /\ ~(signed /\ s[1] = "-")
        THEN [status |-> "out_of_range", negative |-> FALSE, value |-> Wide(0, 0)]
        ELSE [status |-> r.status,
              negative |-> signed /\ s[1] = "-" /\ r.value # Wide(0, 0),
              value |-> r.value]

\* An int as sign and magnitude, and the order of ints.
Int32(neg, magnitude) == [negative |-> neg, value |-> magnitude]
IntLeq(a, b) ==
    IF a.negative /\ ~b.negative THEN TRUE
    ELSE IF ~a.negative /\ b.negative THEN FALSE
    ELSE IF a.negative THEN WideLeq(b.value, a.value)
    ELSE WideLeq(a.value, b.value)

Returned(range) == [status |-> "returned", range |-> range]
Thrown(type) == [status |-> type, range |-> << >>]

\* IndexBgenApplication::parse_range on the text of a -incl-range or
\* -excl-range argument.  The two asserts end the process in a build with
\* assertions and do nothing in one without (ndebug).
parse_range_of_text(spec, ndebug) ==
    LET colon_pos == find(spec, ":")
        piece0 == substr(spec, 0, colon_pos)
        piece1 == substr(spec, colon_pos + 1, Len(spec))
        separator_pos == find(piece1, "-")
        first == stoi(substr(piece1, 0, separator_pos))
        second == stoi(substr(piece1, separator_pos + 1, Len(piece1)))
        pos1 == IF separator_pos = 0 THEN Int32(FALSE, Wide(0, 0))
                ELSE Int32(first.negative, first.value)
        pos2 == IF separator_pos = Len(piece1) - 1 THEN Int32(FALSE, WideOf(INT_MAX))
                ELSE Int32(second.negative, second.value)
    IN  IF colon_pos = npos THEN Thrown("invalid_argument")
        ELSE IF separator_pos = npos THEN Thrown("invalid_argument")
        ELSE IF separator_pos # 0 /\ first.status # "ok" THEN Thrown(first.status)
        ELSE IF separator_pos # Len(piece1) - 1 /\ second.status # "ok"
        THEN Thrown(second.status)
        ELSE IF ~ndebug /\ (pos1.negative \/ ~IntLeq(pos1, pos2))
        THEN Thrown("assertion_failed")
        ELSE Returned([chromosome |-> piece0, start |-> pos1, end |-> pos2])

\* The index query's range predicate on a variant, whose position is an
\* unsigned 32-bit integer: same chromosome, start <= position <= end.
InWideRange(variant, range) ==
    /\ variant.chromosome = range.chromosome
    /\ IntLeq(range.start, Int32(FALSE, variant.position))
    /\ IntLeq(Int32(FALSE, variant.position), range.end)

\* The positions the arguments and the variants are drawn from, as decimal
\* text and as value: 0, 5, 2^31 - 1, 2^31 and 2^32 - 1, and more below
\* MaxRangePos.
MaxRangePos == 6
Numeral(n) == <<Digits[n + 1]>>
Decimals ==
    {[text |-> Numeral(n), value |-> WideOf(n)] : n \in 0..MaxRangePos}
    \cup {[text |-> <<"2","1","4","7","4","8","3","6","4","7">>, value |-> Wide(32767, 65535)],
          [text |-> <<"2","1","4","7","4","8","3","6","4","8">>, value |-> Wide(32768, 0)],
          [text |-> <<"4","2","9","4","9","6","7","2","9","5">>, value |-> Wide(65535, 65535)]}

Chromosomes == {<<"0", "1">>, <<"X">>}

\* The arguments: <chr>:-<pos>, <chr>:<pos>-, <chr>:<pos1>-<pos2>, and
\* texts without ':' or without '-' after it.
OpenBelow(chr, d) == [form |-> "upto", chromosome |-> chr, bound |-> d.value,
                      text |-> chr \o <<":", "-">> \o d.text]
OpenAbove(chr, d) == [form |-> "from", chromosome |-> chr, bound |-> d.value,
                      text |-> chr \o <<":">> \o d.text \o <<"-">>]
Closed(chr, d1, d2) == [form |-> "closed", chromosome |-> chr, bound |-> d1.value,
                        text |-> chr \o <<":">> \o d1.text \o <<"-">> \o d2.text]
Unseparated(text) == [form |-> "unseparated", chromosome |-> << >>,
                      bound |-> Wide(0, 0), text |-> text]
RangeTexts ==
    {OpenBelow(c, d) : c \in Chromosomes, d \in Decimals}
    \cup {OpenAbove(c, d) : c \in Chromosomes, d \in Decimals}
    \cup {Closed(<<"0", "1">>, d1, d2) : d1, d2 \in {d \in Decimals : d.value.hi = 0 /\ d.value.lo < 3}}
    \cup {Unseparated(<<"0", "1">>), Unseparated(<<"0", "1", ":", "5">>),
          Unseparated(<<"5", "-", "6">>), Unseparated(<< >>),
          Unseparated(<<"0", "1", ":">>)}

RangeVariants ==
    {[chromosome |-> c, position |-> d.value] : c \in Chromosomes, d \in Decimals}

\* A call of parse_range on one argument.
parse_range_call ==
    /\ range_pc = "start"
    /\ \E ndebug \in BOOLEAN :
         range_out' = parse_range_of_text(range_spec.text, ndebug)
    /\ range_pc' = IF range_out'.status = "returned" THEN "returned" ELSE "thrown"
    /\ UNCHANGED <<range_spec, range_variant, range_hit>>
    /\ UNCHANGED outside_range

\* The query built from the returned range, asked about one variant.
range_match ==
    /\ range_pc = "returned"
    /\ range_hit' = InWideRange(range_variant, range_out.range)
    /\ range_pc' = "matched"
    /\ UNCHANGED <<range_spec, range_variant, range_out>>
    /\ UNCHANGED outside_range

InitRange ==
    /\ OutsideRangeIdle
    /\ range_spec \in RangeTexts
    /\ range_variant \in RangeVariants
    /\ range_pc = "start"
    /\ range_out = << >>
    /\ range_hit = FALSE

NextRange ==
    \/ parse_range_call
    \/ range_match

SpecRange == InitRange /\ [][NextRange]_vars

\* C11: parse_range maps <chr>:-<pos> to a range matching exactly the
\* positions <= pos and <chr>:<pos>- to one matching exactly the positions
\* >= pos, for every unsigned 32-bit variant position, and rejects a text
\* with no ':' or no '-' after the ':'.
C11_OpenRanges ==
    /\ (range_pc # "start" /\ range_spec.form \in {"upto", "from"})
         => range_pc \in {"returned", "matched"}
    /\ (range_pc = "matched" /\ range_spec.form = "upto")
         => (range_hit <=> /\ range_variant.chromosome = range_spec.chromosome
                           /\ WideLeq(range_variant.position, range_spec.bound))
    /\ (range_pc = "matched" /\ range_spec.form = "from")
         => (range_hit <=> /\ range_variant.chromosome = range_spec.chromosome
                           /\ WideLeq(range_spec.bound, range_variant.position))
    /\ (range_pc # "start" /\ range_spec.form = "unseparated")
         => range_pc = "thrown"

\* ----------------------------------- the BGEN v1.1 probability encoding table

\* Bitwise or of two non-negative integers.
RECURSIVE BitOr(_, _)
BitOr(a, b) ==
    IF a = 0 THEN b
    ELSE IF b = 0 THEN a
    ELSE 2 * BitOr(a \div 2, b \div 2) + (IF a % 2 = 1 \/ b % 2 = 1 THEN 1 ELSE 0)

\* The scaling with the fraction dropped instead of rounded.
ScaledProbability_truncated(x) == (32768 * x) \div 255

\* std::round( (double(x)/255.0)*32768.0 ): the quotient is never within
\* 1/510 of a half, so the double arithmetic rounds as the exact one does.
ScaledProbability(x) == (2 * 32768 * x + 255) \div (2 * 255)

\* a | (b << 16) | (c << 32) as a uint64_t, held as its four 16-bit words,
\* lowest first: a part of a, b or c above 16 bits lands in the next word.
PackValue(a, b, c) ==
    <<a % 65536,
      BitOr(a \div 65536, b % 65536),
      BitOr(b \div 65536, c % 65536),
      c \div 65536>>

\* The value the loop body computes for x and y.
TableValue(x, y) ==
    PackValue(ScaledProbability(x), ScaledProbability(y),
              ScaledProbability(255 - x - y))

\* (y<<8) | x as a uint16_t.
TableKey(x, y) == BitOr((y * 256) % 65536, x)

\* One pass of the inner loop: result[key] = value, ++y.
table_inner ==
    /\ table_x <= 255
    /\ table_y <= 255 - table_x
    /\ table_last' = [x |-> table_x, y |-> table_y,
                      key |-> TableKey(table_x, table_y),
                      value |-> TableValue(table_x, table_y)]
    /\ table_y' = table_y + 1
    /\ UNCHANGED table_x
    /\ UNCHANGED outside_table

\* The inner loop is over: ++x, y = 0.
table_outer ==
    /\ table_x <= 255
    /\ table_y > 255 - table_x
    /\ table_x' = table_x + 1
    /\ table_y' = 0
    /\ UNCHANGED table_last
    /\ UNCHANGED outside_table

\* The table the loops leave, read at a key: result starts all zero, and
\* the key (y<<8) | x is written once, by the pass for x and y.
probability_encoding_table(key) ==
    LET x == key % 256
        y == key \div 256
    IN  IF x + y <= 255 THEN TableValue(x, y) ELSE <<0, 0, 0, 0>>

InitTable ==
    /\ OutsideTableIdle
    /\ table_x = 0
    /\ table_y = 0
    /\ table_last = << >>

NextTable ==
    \/ table_inner
    \/ table_outer

SpecTable == InitTable /\ [][NextTable]_vars

\* n is x * 32768 / 255 rounded to the nearest integer.
IsRounded(n, x) ==
    LET d == 255 * n - 32768 * x
    IN  2 * d <= 255 /\ 2 * d >= -255

\* C12: for every x, y >= 0 with x + y <= 255 the entry at key (y << 8) | x
\* holds a = round(x*32768/255) in bits 0-15, b = round(y*32768/255) in bits
\* 16-31 and c = round((255-x-y)*32768/255) in bits 32-47, each fitting 16
\* bits, with a + b + c within 1 of 32768.
C12_TableEntries ==
    table_last # << >> =>
        LET x == table_last.x
            y == table_last.y
            v == table_last.value
        IN  /\ table_last.key = y * 256 + x
            /\ probability_encoding_table(table_last.key) = v
            /\ IsRounded(v[1], x)
            /\ IsRounded(v[2], y)
            /\ IsRounded(v[3], 255 - x - y)
            /\ v[4] = 0
            /\ \A i \in 1..3 : v[i] >= 0 /\ v[i] < 65536
            /\ v[1] + v[2] + v[3] \in {32767, 32768, 32769}

\* The entry for an even three-way split has been written; its three
\* values sum to 32769.
C12_Witness ==
    /\ table_last # << >>
    /\ table_last.x = 85 /\ table_last.y = 85
    /\ table_last.value = <<10923, 10923, 10923, 0>>

\* --------------------------------------------- the -v11 (layout 1) transcoder

MaxV11Samples == 2
MaxV11Variants == 2

\* The per-sample ploidy byte of a layout-2 probability block: the ploidy in
\* the low six bits, the missing flag in the high bit.
PloidyOf(byte) == byte % 64
IsMissing(byte) == byte >= 128

\* A sample as stored in an 8-bit biallelic unphased block: its ploidy byte
\* and its stored probabilities, ploidy of them, one byte each.
Sample(ploidy_byte, stored) == [ploidy |-> ploidy_byte, stored |-> stored]
V11Samples ==
    {Sample(2, pair) : pair \in {<<255, 0>>, <<85, 85>>, <<0, 7>>}}
    \cup {Sample(130, pair) : pair \in {<<0, 0>>, <<85, 85>>}}
    \cup {Sample(1, <<9>>)}

RECURSIVE FlattenSeq(_)
FlattenSeq(ss) == IF ss = << >> THEN << >> ELSE Head(ss) \o FlattenSeq(Tail(ss))

MinOver(f) == CHOOSE m \in {f[i] : i \in DOMAIN f} : \A i \in DOMAIN f : m <= f[i]
MaxOver(f) == CHOOSE m \in {f[i] : i \in DOMAIN f} : \A i \in DOMAIN f : m >= f[i]

\* What View::read_variant and View::read_and_unpack_v12_genotype_data_block
\* yield for a variant: the number of alleles of the identifying data, and
\* the fields of the uncompressed probability block.
GenotypeDataBlock(nalleles, is_phased, nbits, samples) ==
    [alleles |-> nalleles,
     pack |-> [numberOfSamples |-> Len(samples),
               numberOfAlleles |-> nalleles,
               ploidyExtent |-> <<MinOver([i \in DOMAIN samples |-> PloidyOf(samples[i].ploidy)]),
                                  MaxOver([i \in DOMAIN samples |-> PloidyOf(samples[i].ploidy)])>>,
               ploidy |-> [i \in DOMAIN samples |-> samples[i].ploidy],
               phased |-> is_phased,
               bits |-> nbits,
               buffer |-> FlattenSeq([i \in DOMAIN samples |-> samples[i].stored])]]

\* The variants of the transcoder's input: 8-bit biallelic unphased ones over
\* every choice of samples, and one each that is triallelic, phased, 4-bit.
V11Variants ==
    {GenotypeDataBlock(2, 0, 8, ss) : ss \in [1..MaxV11Samples -> V11Samples]}
    \cup {GenotypeDataBlock(3, 0, 8, [i \in 1..MaxV11Samples |-> Sample(2, <<1, 2, 3, 4, 5>>)]),
          GenotypeDataBlock(2, 1, 8, [i \in 1..MaxV11Samples |-> Sample(2, <<255, 0>>)]),
          GenotypeDataBlock(2, 0, 4, [i \in 1..MaxV11Samples |-> Sample(2, <<240>>)])}

\* The header of the transcoder's input as the View read it when it opened
\* the file; `total` is the file's number_of_variants, of which the query's
\* plan holds all or all but one.
e_Layout1 == 4
V11Context(total, low_flags) ==
    [number_of_variants |-> total,
     number_of_samples  |-> MaxV11Samples,
     magic              |-> <<98, 103, 101, 110>>,
     free_data          |-> <<120>>,
     flags              |-> FlagsWord(low_flags, TRUE)]

V11Views ==
    {[layout2 |-> TRUE, number_of_samples |-> MaxV11Samples, variants |-> vs,
      context |-> V11Context(Len(vs) + left_out, e_Layout2 + e_ZlibCompression)] :
        vs \in UNION {[1..n -> V11Variants] : n \in 0..MaxV11Variants},
        left_out \in {0, 1}}
    \cup {[layout2 |-> FALSE, number_of_samples |-> MaxV11Samples, variants |-> << >>,
           context |-> V11Context(0, e_Layout1 + e_ZlibCompression)]}

\* A byte read at a 0-based offset of the probability data; a read past its
\* end is undefined and yields whatever the memory there holds.
ByteAt(buffer, k, beyond) == IF k < Len(buffer) THEN buffer[k + 1] ELSE beyond

\* The six bytes written for a value: (value >> 0) & 0xFF ... (value >> 40) & 0xFF.
ValueBytes(value) ==
    <<value[1] % 256, value[1] \div 256,
      value[2] % 256, value[2] \div 256,
      value[3] % 256, value[3] \div 256>>

\* One pass of the loop over the samples, for sample i (0-based): buffer
\* has advanced by two bytes per earlier sample, missing or not.
SerialisedSample(pack, i, beyond) ==
    IF IsMissing(pack.ploidy[i + 1]) THEN <<0, 0, 0, 0, 0, 0>>
    ELSE ValueBytes(probability_encoding_table(
             ByteAt(pack.buffer, 2 * i, beyond)
             + 256 * ByteAt(pack.buffer, 2 * i + 1, beyond)))

serialisationBuffer(pack, beyond) ==
    FlattenSeq([k \in 1..pack.numberOfSamples |-> SerialisedSample(pack, k - 1, beyond)])

\* The checks made on a variant before it is serialised: the reason it is
\* refused, or "none".
Unsupported(v, number_of_samples) ==
    IF v.alleles # 2 THEN "alleles"
    ELSE IF v.pack.bits # 8 THEN "bits"
    ELSE IF v.pack.phased # 0 THEN "phased"
    ELSE IF Len(v.pack.buffer) < number_of_samples THEN "short"
    ELSE "none"

\* genfile::zlib_compress, kept as the data it will decompress to.
zlib_compress(bytes) == [uncompressed |-> bytes]

Written(what, n, data) == [kind |-> what, variant |-> n, payload |-> data]

\* outputContext, and what write_offset and write_header_block are given.
OutputHeader(context) ==
    LET outputContext == [context EXCEPT !.flags = FlagsWord(e_Layout1 + e_ZlibCompression, FALSE)]
    IN  [offset |-> header_size(outputContext), context |-> outputContext]

\* The layout check, then the offset and the header of the output.
v11_begin ==
    /\ v11_pc = "start"
    /\ IF ~v11_view.layout2
       THEN /\ v11_log' = Append(v11_log, "bgen_filename")
            /\ v11_rc' = -1
            /\ v11_pc' = "exit"
            /\ UNCHANGED v11_out
       ELSE /\ v11_out' = Append(v11_out, Written("header", 0, OutputHeader(v11_view.context)))
            /\ v11_pc' = "loop"
            /\ UNCHANGED <<v11_log, v11_rc>>
    /\ UNCHANGED <<v11_view, v11_i>>
    /\ UNCHANGED outside_v11

\* One pass of the loop over the variants: a refused variant ends the run
\* through process_selection's handler, with return code -1.
v11_variant ==
    /\ v11_pc = "loop"
    /\ v11_i < Len(v11_view.variants)
    /\ LET v == v11_view.variants[v11_i + 1]
           why == Unsupported(v, v11_view.number_of_samples)
       IN  IF why # "none"
           THEN /\ v11_log' = v11_log \o (IF why = "short" THEN << >> ELSE <<why>>)
                                      \o <<"bgen_filename">>
                /\ v11_rc' = -1
                /\ v11_pc' = "exit"
                /\ UNCHANGED <<v11_out, v11_i>>
           ELSE /\ \E beyond \in {0, 255} :
                     v11_out' = Append(v11_out,
                         Written("variant", v11_i + 1,
                                 zlib_compress(serialisationBuffer(v.pack, beyond))))
                /\ v11_i' = v11_i + 1
                /\ UNCHANGED <<v11_log, v11_rc, v11_pc>>
    /\ UNCHANGED v11_view
    /\ UNCHANGED outside_v11

\* The loop is over: the success line, and main returns 0.
v11_end ==
    /\ v11_pc = "loop"
    /\ v11_i = Len(v11_view.variants)
    /\ v11_log' = Append(v11_log, "success")
    /\ v11_rc' = 0
    /\ v11_pc' = "exit"
    /\ UNCHANGED <<v11_view, v11_i, v11_out>>
    /\ UNCHANGED outside_v11

InitV11 ==
    /\ OutsideV11Idle
    /\ v11_view \in V11Views
    /\ v11_pc = "start"
    /\ v11_i = 0
    /\ v11_out = << >>
    /\ v11_log = << >>
    /\ v11_rc = NoReturnCode

NextV11 ==
    \/ v11_begin
    \/ v11_variant
    \/ v11_end

SpecV11 == InitV11 /\ [][NextV11]_vars

\* The variants a record has been written for.
V11Emitted == {v11_out[k].variant : k \in {j \in DOMAIN v11_out : v11_out[j].kind = "variant"}}

\* 8-bit, biallelic, unphased and diploid for all samples.
V11Supported(v) ==
    /\ v.pack.bits = 8
    /\ v.alleles = 2
    /\ v.pack.phased = 0
    /\ \A i \in DOMAIN v.pack.ploidy : PloidyOf(v.pack.ploidy[i]) = 2

\* C13: the -v11 transcoder fails with an error, emitting no record for the
\* variant, on any variant that is not 8-bit, or not biallelic, or phased,
\* or has a sample whose ploidy is not 2; it emits a record only for
\* variants that are 8-bit, biallelic, unphased and diploid for all samples.
C13_V11Refusals ==
    /\ \A n \in V11Emitted : V11Supported(v11_view.variants[n])
    /\ \A n \in 1..Len(v11_view.variants) :
         (~V11Supported(v11_view.variants[n]) /\ (v11_i >= n \/ (v11_i = n - 1 /\ v11_pc = "exit")))
            => (v11_pc = "exit" /\ v11_rc = -1 /\ v11_i = n - 1 /\ n \notin V11Emitted)

\* C14: for each variant the -v11 transcoder accepts, with n samples, the
\* uncompressed payload is 6n bytes, and the six bytes of sample i are zero
\* if its missing bit is set, otherwise the little-endian a, b, c of the
\* table entry for its own pair (x = input byte 2i, y = input byte 2i+1),
\* whichever other samples are missing.
C14_V11Payload ==
    \A k \in DOMAIN v11_out :
        v11_out[k].kind = "variant" =>
            LET pack == v11_view.variants[v11_out[k].variant].pack
                bytes == v11_out[k].payload.uncompressed
                n == pack.numberOfSamples
            IN  /\ Len(bytes) = 6 * n
                /\ \A i \in 0..(n - 1) :
                     IF IsMissing(pack.ploidy[i + 1])
                     THEN SubSeq(bytes, 6 * i + 1, 6 * i + 6) = <<0, 0, 0, 0, 0, 0>>
                     ELSE /\ 2 * i + 1 < Len(pack.buffer)
                          /\ LET x == pack.buffer[2 * i + 1]
                                 y == pack.buffer[2 * i + 2]
                                 e == probability_encoding_table(y * 256 + x)
                             IN  SubSeq(bytes, 6 * i + 1, 6 * i + 6) =
                                   <<e[1] % 256, e[1] \div 256, e[2] % 256,
                                     e[2] \div 256, e[3] % 256, e[3] \div 256>>

\* --------------------------------------------------- the VCF encoding table

RECURSIVE Pow(_, _)
Pow(b, e) == IF e = 0 THEN 1 ELSE b * Pow(b, e - 1)

\* The switch on bits: decimal places per probability.
dps(bits) ==
    CASE bits = 1 -> 0
      [] bits = 2 -> 2
      [] bits = 4 -> 3
      [] bits = 8 -> 4

\* The entry size without the two characters a decimal point adds.
valueSize_unpointed(bits) == 3 + 3 + 3 * (dps(bits) + 1)

valueSize(bits) == 3 + 3 + 3 * (dps(bits) + (IF dps(bits) > 0 THEN 2 ELSE 1))

maxProb(bits) == Pow(2, bits) - 1

\* uint16_t key = (y<<bits) | x.
VcfKey(x, y, bits) == BitOr((y * Pow(2, bits)) % 65536, x)

\* The threshholded call: p0 > 0.9 and so on, with p = count/double(maxProb).
\* No count/maxProb is within 0.001 of 0.9, so the comparison of doubles is
\* the comparison of 10 * count with 9 * maxProb.
VcfGT(x, y, max) ==
    IF 10 * x > 9 * max THEN <<"0", "/", "0">>
    ELSE IF 10 * y > 9 * max THEN <<"0", "/", "1">>
    ELSE IF 10 * (max - x - y) > 9 * max THEN <<"1", "/", "1">>
    ELSE <<".", "/", ".">>

\* n as d decimal digits, zero-padded.
RECURSIVE PaddedDigits(_, _)
PaddedDigits(n, d) ==
    IF d = 0 THEN << >> ELSE PaddedDigits(n \div 10, d - 1) \o <<Digits[(n % 10) + 1]>>

\* operator<< of count/double(max) under std::fixed and setprecision(places):
\* the quotient rounded to that many places (never a tie for these max),
\* printed without a decimal point when places is 0.
FormatFixed(count, max, places) ==
    LET scale == Pow(10, places)
        scaled == (2 * count * scale + max) \div (2 * max)
        whole == PaddedDigits(scaled \div scale, 1)
    IN  IF places = 0 THEN whole
        ELSE whole \o <<".">> \o PaddedDigits(scaled % scale, places)

\* formatter << gt << ":" << p0 << "," << p1 << "," << p2.
VcfValue(bits, x, y) ==
    LET max == maxProb(bits)
    IN  VcfGT(x, y, max) \o <<":">> \o FormatFixed(x, max, dps(bits))
        \o <<",">> \o FormatFixed(y, max, dps(bits))
        \o <<",">> \o FormatFixed(max - x - y, max, dps(bits))

\* One pass of the inner loop: the value is copied into storage at
\* key * valueSize.
VcfCopy(bits, x, y) ==
    [x |-> x, y |-> y, key |-> VcfKey(x, y, bits),
     storageIndex |-> VcfKey(x, y, bits) * valueSize(bits),
     value |-> VcfValue(bits, x, y)]

vtab_inner ==
    /\ vtab_bits # 0
    /\ vtab_x <= maxProb(vtab_bits)
    /\ vtab_y <= maxProb(vtab_bits) - vtab_x
    /\ vtab_last' = VcfCopy(vtab_bits, vtab_x, vtab_y)
    /\ vtab_prev' = vtab_last
    /\ vtab_y' = vtab_y + 1
    /\ UNCHANGED <<vtab_bits, vtab_x>>
    /\ UNCHANGED outside_vtab

vtab_outer ==
    /\ vtab_bits # 0
    /\ vtab_x <= maxProb(vtab_bits)
    /\ vtab_y > maxProb(vtab_bits) - vtab_x
    /\ vtab_x' = vtab_x + 1
    /\ vtab_y' = 0
    /\ UNCHANGED <<vtab_bits, vtab_last, vtab_prev>>
    /\ UNCHANGED outside_vtab

\* extract_vcf_encoding: the characters of storage from genotype * valueSize
\* to (genotype + 1) * valueSize.  Each key's entry is copied once and the
\* copies do not overlap, so these are the value copied for the key, or the
\* spaces storage started with.
extract_vcf_encoding(bits, genotype) ==
    LET x == genotype % Pow(2, bits)
        y == genotype \div Pow(2, bits)
    IN  IF x + y <= maxProb(bits) THEN VcfValue(bits, x, y)
        ELSE [i \in 1..valueSize(bits) |-> " "]

InitVtab ==
    /\ OutsideVtabIdle
    /\ vtab_bits \in {1, 2, 4, 8}
    /\ vtab_x = 0
    /\ vtab_y = 0
    /\ vtab_last = << >>
    /\ vtab_prev = << >>

NextVtab ==
    \/ vtab_inner
    \/ vtab_outer

SpecVtab == InitVtab /\ [][NextVtab]_vars

\* The characters of storage a copy writes.
CopyRange(w) == w.storageIndex .. (w.storageIndex + Len(w.value) - 1)

MaxVcfSamples == 2
MaxVcfVariants == 2

\* The low `bits` bits of n, lowest first.
RECURSIVE BitsOf(_, _)
BitsOf(n, bits) == IF bits = 0 THEN << >> ELSE <<n % 2>> \o BitsOf(n \div 2, bits - 1)

\* A sequence of bits, lowest first, as bytes; the last byte is zero-padded.
RECURSIVE BytesOf(_)
BytesOf(bs) ==
    IF bs = << >> THEN << >>
    ELSE LET b == [i \in 1..8 |-> IF i <= Len(bs) THEN bs[i] ELSE 0]
         IN  <<b[1] + 2 * b[2] + 4 * b[3] + 8 * b[4]
               + 16 * b[5] + 32 * b[6] + 64 * b[7] + 128 * b[8]>>
             \o (IF Len(bs) <= 8 THEN << >> ELSE BytesOf(SubSeq(bs, 9, Len(bs))))

\* The probability data of a layout-2 block: the samples' stored values,
\* `bits` bits each, packed one after the other.
PackedBuffer(samples, bits) ==
    BytesOf(FlattenSeq([i \in DOMAIN samples |->
        FlattenSeq([j \in DOMAIN samples[i].stored |-> BitsOf(samples[i].stored[j], bits)])]))

PackedBlock(nalleles, is_phased, nbits, samples) ==
    LET eight == GenotypeDataBlock(nalleles, is_phased, nbits, samples)
    IN  [eight EXCEPT !.pack.buffer = PackedBuffer(samples, nbits)]

\* A diploid biallelic unphased sample at a bit width: certainty of either
\* homozygote or of the heterozygote, or missing.
VcfSamples(bits) ==
    {Sample(2, <<Pow(2, bits) - 1, 0>>), Sample(2, <<0, Pow(2, bits) - 1>>),
     Sample(2, <<0, 0>>), Sample(130, <<0, 0>>)}

\* The variants of the transcoder's input: diploid biallelic unphased ones at
\* 1, 2, 4 and 8 bits, and one each that is 16-bit, triallelic, phased, or
\* has a haploid sample.
VcfVariants ==
    UNION {{PackedBlock(2, 0, b, ss) : ss \in [1..MaxVcfSamples -> VcfSamples(b)]} :
              b \in {1, 2, 4, 8}}
    \cup {PackedBlock(2, 0, 16, [i \in 1..MaxVcfSamples |-> Sample(2, <<65535, 0>>)]),
          PackedBlock(3, 0, 8, [i \in 1..MaxVcfSamples |-> Sample(2, <<255, 0, 0, 0, 0>>)]),
          PackedBlock(2, 1, 8, [i \in 1..MaxVcfSamples |-> Sample(2, <<255, 0>>)]),
          PackedBlock(2, 0, 8, [i \in 1..MaxVcfSamples |->
                                   IF i = 1 THEN Sample(1, <<255>>) ELSE Sample(2, <<255, 0>>)])}

VcfViews ==
    {[layout2 |-> TRUE, number_of_samples |-> MaxVcfSamples, variants |-> vs] :
        vs \in UNION {[1..n -> VcfVariants] : n \in 0..MaxVcfVariants}}
    \cup {[layout2 |-> FALSE, number_of_samples |-> MaxVcfSamples,
           variants |-> <<PackedBlock(2, 0, 8, [i \in 1..MaxVcfSamples |-> Sample(2, <<255, 0>>)])>>]}

\* n >> shift, and n & (2^width - 1).
ShiftRight(n, shift) == n \div Pow(2, shift)
MaskLow(n, width) == n % Pow(2, width)

\* extract_encoded_genotype without the shift to the sample's bits within
\* the byte.
extract_encoded_genotype_unshifted(buffer, i, bits, beyond) ==
    LET at == (2 * i * bits) \div 8
        word == ByteAt(buffer, at, beyond) + 256 * ByteAt(buffer, at + 1, beyond)
    IN  MaskLow(word, 2 * bits)

\* IndexBgenApplication::extract_encoded_genotype: the 16 bits at byte
\* (2*i*bits)/8 of the data, shifted and masked to sample i's 2*bits bits.
extract_encoded_genotype(buffer, i, bits, beyond) ==
    LET at == (2 * i * bits) \div 8
        word == ByteAt(buffer, at, beyond) + 256 * ByteAt(buffer, at + 1, beyond)
        encodingMask == ShiftRight(65535, 16 - 2 * bits)
        encodingShift == IF bits >= 4 THEN 0 ELSE (2 * bits) * (i % (4 \div bits))
    IN  MaskLow(ShiftRight(word, encodingShift), 2 * bits)

\* The condition of the faster method: bits, ploidyExtent and phased.
UseTable(v) ==
    /\ v.pack.bits \in {1, 2, 4, 8}
    /\ v.pack.ploidyExtent[1] = 2
    /\ v.pack.ploidyExtent[2] = 2
    /\ v.pack.phased = 0

\* The characters the faster method writes for sample i (0-based).
TableColumn(pack, i, beyond) ==
    IF IsMissing(pack.ploidy[i + 1]) THEN <<"\t", ".", "/", ".">>
    ELSE <<"\t">> \o extract_vcf_encoding(pack.bits,
                         extract_encoded_genotype(pack.buffer, i, pack.bits, beyond))

TableLine(pack, beyond) ==
    FlattenSeq([k \in 1..pack.numberOfSamples |-> TableColumn(pack, k - 1, beyond)])
    \o <<"\n">>

VcfLine(n, how, chars) == [variant |-> n, path |-> how, text |-> chars]

\* The VCF header lines.
vcf_begin ==
    /\ vcf_pc = "start"
    /\ vcf_out' = Append(vcf_out, VcfLine(0, "header", << >>))
    /\ vcf_pc' = "loop"
    /\ UNCHANGED <<vcf_view, vcf_i>>
    /\ UNCHANGED outside_vcf

\* One pass of the loop over the variants: the fixed columns, then the
\* samples' columns by the faster method or by a VCFProbWriter.
vcf_variant ==
    /\ vcf_pc = "loop"
    /\ vcf_i < Len(vcf_view.variants)
    /\ LET v == vcf_view.variants[vcf_i + 1]
       IN  IF vcf_view.layout2 /\ UseTable(v)
           THEN \E beyond \in {0, 255} :
                    vcf_out' = Append(vcf_out,
                                      VcfLine(vcf_i + 1, "table", TableLine(v.pack, beyond)))
           ELSE vcf_out' = Append(vcf_out, VcfLine(vcf_i + 1, "VCFProbWriter", << >>))
    /\ vcf_i' = vcf_i + 1
    /\ UNCHANGED <<vcf_view, vcf_pc>>
    /\ UNCHANGED outside_vcf

vcf_end ==
    /\ vcf_pc = "loop"
    /\ vcf_i = Len(vcf_view.variants)
    /\ vcf_pc' = "exit"
    /\ UNCHANGED <<vcf_view, vcf_i, vcf_out>>
    /\ UNCHANGED outside_vcf

InitVcf ==
    /\ OutsideVcfIdle
    /\ vcf_view \in VcfViews
    /\ vcf_pc = "start"
    /\ vcf_i = 0
    /\ vcf_out = << >>

NextVcf ==
    \/ vcf_begin
    \/ vcf_variant
    \/ vcf_end

SpecVcf == InitVcf /\ [][NextVcf]_vars

\* C15: in -vcf mode the lookup table is used only for layout-2 variants
\* that are diploid for every sample, biallelic, unphased and have bits in
\* {1,2,4,8}; every other variant, a diploid unphased one with more than two
\* alleles included, is written through the generic writer.
C15_VcfFastPath ==
    \A k \in DOMAIN vcf_out :
        vcf_out[k].path # "header" =>
            LET v == vcf_view.variants[vcf_out[k].variant]
                fast == /\ vcf_view.layout2
                        /\ \A i \in DOMAIN v.pack.ploidy : PloidyOf(v.pack.ploidy[i]) = 2
                        /\ v.alleles = 2
                        /\ v.pack.phased = 0
                        /\ v.pack.bits \in {1, 2, 4, 8}
            IN  vcf_out[k].path = (IF fast THEN "table" ELSE "VCFProbWriter")

\* ------------------------------------ VCFProbWriter::construct_unphased_GT

MaxPloidy == 3
MaxAlleles == 4

\* The number of genotypes of ploidy k over K alleles: C(k + K - 1, K - 1).
RECURSIVE Choose(_, _)
Choose(n, r) == IF r = 0 THEN 1 ELSE IF n < r THEN 0 ELSE (Choose(n - 1, r - 1) * n) \div r
NumberOfGenotypes(k, K) == Choose(k + K - 1, K - 1)

\* The threshhold, and the probabilities, in tenths.
threshhold == 9
ProbVectors(n) ==
    {[i \in 1..n |-> 0]}
    \cup {[i \in 1..n |-> IF i = a THEN 10 ELSE 0] : a \in 1..n}
    \cup {[i \in 1..n |-> IF i = a \/ i = n THEN 10 ELSE 0] : a \in 1..n}

\* --x and x += value on a uint16_t.
Decrement16(x) == IF x = 0 THEN 65535 ELSE x - 1
Add16(x, value) == (x + value) % 65536

\* The for loop over j that moves m_genotype to the next genotype, from j
\* on: the genotype and limits it leaves, the j it ends with, and whether a
\* decrement met a zero.
RECURSIVE MoveToNext(_, _, _, _)
MoveToNext(j, genotype, limits, K) ==
    IF j >= K - 1
    THEN [genotype |-> genotype, limits |-> limits, j |-> j, wrapped |-> FALSE]
    ELSE LET value == genotype[j + 2]
         IN  IF value < limits[j + 1]
             THEN [genotype |-> [genotype EXCEPT ![j + 2] = Add16(@, 1),
                                                 ![1] = Decrement16(@)],
                   limits |-> [k \in DOMAIN limits |->
                                  IF k <= j THEN Decrement16(limits[k]) ELSE limits[k]],
                   j |-> j,
                   wrapped |-> genotype[1] = 0 \/ \E k \in 1..j : limits[k] = 0]
             ELSE MoveToNext(j + 1,
                             [genotype EXCEPT ![j + 2] = 0, ![1] = Add16(@, value)],
                             [k \in DOMAIN limits |->
                                 IF k <= j THEN Add16(limits[k], value) ELSE limits[k]],
                             K)

\* std::to_string( allele ) + "/", count times.
RECURSIVE Repeated(_, _)
Repeated(elt, count) == IF count = 0 THEN << >> ELSE elt \o Repeated(elt, count - 1)

\* m_GT_buffer before its trailing slash is removed.
AssembledGT(met, genotype, ploidy, K) ==
    IF met
    THEN FlattenSeq([a \in 1..K |-> Repeated(<<Digits[a], "/">>, genotype[a])])
    ELSE Repeated(<<".", "/">>, ploidy)

\* m_GT_buffer.resize( m_GT_buffer.size() - 1 ): of an empty buffer, a
\* resize to the largest size_t, which throws std::length_error.
RemoveTrailingSlash(buffer) ==
    IF buffer = << >> THEN <<"std::length_error">>
    ELSE SubSeq(buffer, 1, Len(buffer) - 1)

\* The assignments before the loop.
gt_setup ==
    /\ gt_pc = "start"
    /\ gt_limits' = [k \in 1..(gt_alleles - 1) |-> gt_ploidy]
    /\ gt_genotype' = [a \in 1..gt_alleles |-> IF a = 1 THEN gt_ploidy ELSE 0]
    /\ gt_met' = FALSE
    /\ gt_index' = 0
    /\ gt_pc' = "loop"
    /\ UNCHANGED <<gt_ploidy, gt_alleles, gt_probs, gt_buffer, gt_visited, gt_wrapped>>
    /\ UNCHANGED outside_gt

\* One pass of the loop over index.
gt_pass ==
    /\ gt_pc = "loop"
    /\ gt_visited' = Append(gt_visited, gt_genotype)
    /\ IF gt_probs[gt_index + 1] > threshhold
       THEN /\ gt_met' = TRUE
            /\ gt_pc' = "assemble"
            /\ UNCHANGED <<gt_genotype, gt_limits, gt_index, gt_wrapped>>
       ELSE LET next == MoveToNext(0, gt_genotype, gt_limits, gt_alleles)
            IN  /\ gt_genotype' = next.genotype
                /\ gt_limits' = next.limits
                /\ gt_wrapped' = (gt_wrapped \/ next.wrapped)
                /\ IF next.j = gt_alleles - 1
                   THEN gt_pc' = "assemble" /\ UNCHANGED gt_index
                   ELSE gt_index' = gt_index + 1 /\ UNCHANGED gt_pc
                /\ UNCHANGED gt_met
    /\ UNCHANGED <<gt_ploidy, gt_alleles, gt_probs, gt_buffer>>
    /\ UNCHANGED outside_gt

\* The GT field is assembled and returned.
gt_assemble ==
    /\ gt_pc = "assemble"
    /\ gt_buffer' = RemoveTrailingSlash(
                        AssembledGT(gt_met, gt_genotype, gt_ploidy, gt_alleles))
    /\ gt_pc' = "returned"
    /\ UNCHANGED <<gt_ploidy, gt_alleles, gt_probs, gt_genotype, gt_limits,
                   gt_index, gt_met, gt_visited, gt_wrapped>>
    /\ UNCHANGED outside_gt

InitGt ==
    /\ OutsideGtIdle
    /\ gt_ploidy \in 0..MaxPloidy
    /\ gt_alleles \in 1..MaxAlleles
    /\ gt_probs \in ProbVectors(NumberOfGenotypes(gt_ploidy, gt_alleles))
    /\ gt_genotype = << >>
    /\ gt_limits = << >>
    /\ gt_index = 0
    /\ gt_met = FALSE
    /\ gt_buffer = << >>
    /\ gt_pc = "start"
    /\ gt_visited = << >>
    /\ gt_wrapped = FALSE

NextGt ==
    \/ gt_setup
    \/ gt_pass
    \/ gt_assemble

SpecGt == InitGt /\ [][NextGt]_vars

\* The genotypes of ploidy k over K alleles as allele-count vectors, and
\* colex order: at the last place where two vectors differ, the smaller has
\* the smaller count.
RECURSIVE SumOf(_)
SumOf(f) == IF f = << >> THEN 0 ELSE Head(f) + SumOf(Tail(f))
AllGenotypes(k, K) == {g \in [1..K -> 0..k] : SumOf(g) = k}
ColexLess(v, w) ==
    \E i \in DOMAIN v : v[i] < w[i] /\ \A j \in DOMAIN v : j > i => v[j] = w[j]
ColexRank(g, k, K) == Cardinality({w \in AllGenotypes(k, K) : ColexLess(w, g)})

\* The allele indices of a genotype, each as often as its count, joined
\* with '/'.
RECURSIVE AlleleList(_, _)
AlleleList(g, a) ==
    IF a > Len(g) THEN << >>
    ELSE [i \in 1..g[a] |-> Digits[a]] \o AlleleList(g, a + 1)
RECURSIVE JoinSlash(_)
JoinSlash(items) ==
    IF items = << >> THEN << >>
    ELSE IF Len(items) = 1 THEN <<items[1]>>
    ELSE <<items[1], "/">> \o JoinSlash(Tail(items))

Exceeding == {n \in DOMAIN gt_probs : gt_probs[n] > 9}

\* C17: for unphased data with ploidy k and K alleles construct_unphased_GT
\* visits the genotypes in colex order, C(k+K-1, K-1) of them if none is over
\* the threshold, the index-th visited paired with probs[index]; it returns
\* the allele indices of the first genotype whose probability exceeds 0.9
\* joined with '/', or k dots joined with '/' if none does; throughout, the
\* counts of the genotype vector sum to k and no count or limit underflows.
C17_UnphasedGT ==
    gt_pc \in {"loop", "assemble", "returned"} =>
        /\ \A n \in DOMAIN gt_visited :
             /\ gt_visited[n] \in AllGenotypes(gt_ploidy, gt_alleles)
             /\ ColexRank(gt_visited[n], gt_ploidy, gt_alleles) = n - 1
        /\ Len(gt_visited) = gt_index + (IF gt_pc = "loop" THEN 0 ELSE 1)
        /\ SumOf(gt_genotype) = gt_ploidy
        /\ ~gt_wrapped
        /\ gt_pc # "loop" =>
             IF Exceeding = {}
             THEN ~gt_met /\ Len(gt_visited) = NumberOfGenotypes(gt_ploidy, gt_alleles)
             ELSE gt_met /\ Len(gt_visited) = CHOOSE n \in Exceeding : \A m \in Exceeding : n <= m
        /\ gt_pc = "returned" =>
             gt_buffer = (IF Exceeding = {}
                          THEN JoinSlash([i \in 1..gt_ploidy |-> "."])
                          ELSE JoinSlash(AlleleList(gt_visited[Len(gt_visited)], 1)))

\* ----------------------------------------------------------------- cat-bgen

MaxCatFiles == 2

\* An input of cat-bgen: a data file whose variant records are two bytes
\* each (cat-bgen copies them unread).  m is the number_of_variants of its
\* header, tag tells the files' bytes apart.
CatVariant(tag, i) ==
    [IndexedVariant(i, 1) EXCEPT !.position = tag, !.id_size = 1, !.probs_size = 1]

CatFile(tag, m, nsamples, low_flags, has_ids) ==
    [exists          |-> TRUE,
     filename        |-> "in.bgen",
     last_write_time |-> 1,
     header_ok       |-> TRUE,
     context         |-> [number_of_variants |-> m,
                          number_of_samples  |-> nsamples,
                          magic              |-> <<98, 103, 101, 110>>,
                          free_data          |-> <<120>>,
                          flags              |-> FlagsWord(low_flags, has_ids)],
     sample_block    |-> IF has_ids THEN SampleBlock ELSE << >>,
     variants        |-> [i \in 1..m |-> CatVariant(tag, i)],
     bad             |-> 0]

CatFiles ==
    {CatFile(m + n, m, n, low, ids) :
        m \in {1, 2}, n \in {1, 2}, low \in {e_Layout2 + e_ZlibCompression, 5},
        ids \in BOOLEAN}

CatOptions ==
    {[omit_sample_identifier_block |-> o, set_free_data |-> f, clobber |-> c] :
        o \in BOOLEAN, c \in BOOLEAN,
        f \in {NotGiven, [given |-> TRUE, values |-> << >>],
               [given |-> TRUE, values |-> <<121, 122>>]}}

NoFile == [exists |-> FALSE, bytes |-> << >>]
OnDisk(bytes) == [exists |-> TRUE, bytes |-> bytes]

\* flags = 0 in place of flags & ~e_SampleIdentifiers.
WithoutSampleIdentifiers_or_others(flags) == [k \in 1..4 |-> 0]

\* flags & ~e_SampleIdentifiers, on the flags word's four bytes.
WithoutSampleIdentifiers(flags) == [flags EXCEPT ![4] = @ % e_SampleIdentifiers]

\* bgen::read_offset: the first four bytes of the file.
read_offset(bytes) == read_little_endian_integer(bytes, 1, 4)

\* Where concatenate seeks to in a file whose data it copies.
DataStart_at_offset(offset) == offset
DataStart(offset) == offset + 4

\* std::copy( inIt, endInIt, outIt ) from a 0-based stream position.
RestOf(bytes, position) == SubSeq(bytes, position + 1, Len(bytes))

\* The bytes of a file after a write of `data` at 0-based position `at`.
Overwritten(bytes, at, data) ==
    [k \in 1..(IF at + Len(data) > Len(bytes) THEN at + Len(data) ELSE Len(bytes)) |->
        IF k > at /\ k <= at + Len(data) THEN data[k - at] ELSE bytes[k]]

NoContext == << >>

\* CatBgenApplication's constructor up to the call of concatenate.
cat_start ==
    /\ cat_pc = "start"
    /\ IF ~cat_opt.clobber /\ cat_og.exists
       THEN /\ cat_log' = Append(cat_log, "Output file exists")
            /\ cat_rc' = -1
            /\ cat_pc' = "exit"
            /\ UNCHANGED cat_og
       ELSE IF Len(cat_files) = 0
       THEN /\ cat_log' = Append(cat_log, "No input files specified")
            /\ cat_rc' = -1
            /\ cat_pc' = "exit"
            /\ UNCHANGED cat_og
       ELSE /\ cat_og' = OnDisk(<< >>)
            /\ cat_pc' = "first"
            /\ UNCHANGED <<cat_log, cat_rc>>
    /\ UNCHANGED <<cat_files, cat_opt, cat_i, cat_result>>
    /\ UNCHANGED outside_cat

\* concatenate's block for the first file: what it makes of the header it
\* read, the offset it writes and the stream position it copies from.
FirstFile(bytes, o) ==
    LET read == read_header_block(bytes, 5)
        kept == IF o.omit_sample_identifier_block
                THEN [read EXCEPT !.flags = WithoutSampleIdentifiers(@)]
                ELSE read
        position == IF o.omit_sample_identifier_block
                    THEN DataStart(read_offset(bytes))
                    ELSE 4 + header_size(read)
        offset == IF o.omit_sample_identifier_block
                  THEN header_size(kept)
                  ELSE read_offset(bytes)
    IN  IF o.set_free_data.given
        THEN [context |-> [kept EXCEPT !.free_data = o.set_free_data.values],
              offset |-> offset + Len(o.set_free_data.values) - Len(kept.free_data),
              position |-> position]
        ELSE [context |-> kept, offset |-> offset, position |-> position]

cat_first ==
    /\ cat_pc = "first"
    /\ LET bytes == FileBytes(cat_files[1])
           first == FirstFile(bytes, cat_opt)
       IN  /\ cat_result' = first.context
           /\ cat_og' = OnDisk(write_little_endian_integer(first.offset, 4)
                               \o write_header_block(first.context)
                               \o RestOf(bytes, first.position))
    /\ cat_log' = Append(cat_log, "Adding file")
    /\ cat_i' = 1
    /\ cat_pc' = "loop"
    /\ UNCHANGED <<cat_files, cat_opt, cat_rc>>
    /\ UNCHANGED outside_cat

\* One pass of the loop over the other files.
cat_next ==
    /\ cat_pc = "loop"
    /\ cat_i < Len(cat_files)
    /\ LET bytes == FileBytes(cat_files[cat_i + 1])
           offset == read_offset(bytes)
           context == read_header_block(bytes, 5)
       IN  IF context.number_of_samples # cat_result.number_of_samples
           THEN /\ cat_log' = cat_log \o <<"Adding file", "wrong number of samples">>
                /\ cat_rc' = -1
                /\ cat_pc' = "exit"
                /\ UNCHANGED <<cat_og, cat_result, cat_i>>
           ELSE IF context.flags # cat_result.flags
           THEN /\ cat_log' = cat_log \o <<"Adding file", "wrong flags">>
                /\ cat_rc' = -1
                /\ cat_pc' = "exit"
                /\ UNCHANGED <<cat_og, cat_result, cat_i>>
           ELSE /\ cat_og' = OnDisk(cat_og.bytes \o RestOf(bytes, DataStart(offset)))
                /\ cat_result' = [cat_result EXCEPT !.number_of_variants =
                                      @ + context.number_of_variants]
                /\ cat_log' = Append(cat_log, "Adding file")
                /\ cat_i' = cat_i + 1
                /\ UNCHANGED <<cat_rc, cat_pc>>
    /\ UNCHANGED <<cat_files, cat_opt>>
    /\ UNCHANGED outside_cat

\* The header is written again at byte 4, concatenate returns and main
\* returns 0.
cat_finish ==
    /\ cat_pc = "loop"
    /\ cat_i = Len(cat_files)
    /\ cat_og' = OnDisk(Overwritten(cat_og.bytes, 4, write_header_block(cat_result)))
    /\ cat_log' = Append(cat_log, "Finished writing")
    /\ cat_rc' = 0
    /\ cat_pc' = "exit"
    /\ UNCHANGED <<cat_files, cat_opt, cat_i, cat_result>>
    /\ UNCHANGED outside_cat

InitCat ==
    /\ OutsideCatIdle
    /\ cat_files \in UNION {[1..m -> CatFiles] : m \in 0..MaxCatFiles}
    /\ cat_opt \in CatOptions
    /\ cat_og \in {NoFile, OnDisk(<<1, 2, 3>>)}
    /\ cat_pc = "start"
    /\ cat_i = 0
    /\ cat_result = NoContext
    /\ cat_log = << >>
    /\ cat_rc = NoReturnCode

NextCat ==
    \/ cat_start
    \/ cat_first
    \/ cat_next
    \/ cat_finish

SpecCat == InitCat /\ [][NextCat]_vars

\* The pieces of the claims about cat-bgen.
CatSucceeded == cat_pc = "exit" /\ cat_rc = 0
CatInput(i) == FileBytes(cat_files[i])
CatHeaderOf(bytes) == read_header_block(bytes, 5)
CatAfterHeader(bytes) == RestOf(bytes, 4 + read_little_endian_integer(bytes, 5, 4))
CatData(bytes) == RestOf(bytes, 4 + read_little_endian_integer(bytes, 1, 4))
CatSumOfVariants ==
    SumTo([i \in 1..Len(cat_files) |-> CatHeaderOf(CatInput(i)).number_of_variants],
          Len(cat_files))
CatOtherData == Concat([j \in 1..(Len(cat_files) - 1) |-> CatData(CatInput(j + 1))])

\* The final step changes no byte of the output outside its header.
CatRewriteKeepsData ==
    [][(cat_pc = "loop" /\ cat_pc' = "exit" /\ cat_rc' = 0) =>
          /\ Len(cat_og'.bytes) = Len(cat_og.bytes)
          /\ \A k \in 1..Len(cat_og.bytes) :
                (k <= 4 \/ k > 4 + read_little_endian_integer(cat_og.bytes, 5, 4))
                    => cat_og'.bytes[k] = cat_og.bytes[k]]_vars

\* C18: after a successful cat-bgen run over f1..fm the output header's
\* number_of_variants is the sum of the inputs', the output after the header
\* is f1 after its header followed, for each i >= 2 in order, by fi from
\* position 4 + offset_i to its end, and the final header rewrite at byte 4
\* changes no byte outside the header.
C18_CatOutput ==
    /\ [](CatSucceeded =>
            /\ CatHeaderOf(cat_og.bytes).number_of_variants = CatSumOfVariants
            /\ CatAfterHeader(cat_og.bytes) = CatAfterHeader(CatInput(1)) \o CatOtherData)
    /\ CatRewriteKeepsData

\* C18 as the code has it: with -omit-sample-identifier-block the part of
\* f1 that is copied starts at 4 + offset_1, after its sample identifier
\* block, not after its header.
C18_CatOutputAmended ==
    /\ [](CatSucceeded =>
            /\ CatHeaderOf(cat_og.bytes).number_of_variants = CatSumOfVariants
            /\ CatAfterHeader(cat_og.bytes) =
                 (IF cat_opt.omit_sample_identifier_block
                  THEN CatData(CatInput(1))
                  ELSE CatAfterHeader(CatInput(1))) \o CatOtherData)
    /\ CatRewriteKeepsData

\* Two files have been concatenated with -omit-sample-identifier-block, the
\* first holding a sample identifier block that the output leaves out.
C18_Witness ==
    /\ CatSucceeded
    /\ Len(cat_files) = 2
    /\ cat_opt.omit_sample_identifier_block
    /\ HasSampleIdentifiers(CatHeaderOf(CatInput(1)).flags)
    /\ CatHeaderOf(cat_og.bytes).number_of_variants = 3
    /\ Len(cat_og.bytes) < Len(CatInput(1)) + Len(CatData(CatInput(2)))

\* C19: under every option combination cat-bgen rejects a subsequent input
\* with return code -1 exactly when its number_of_samples or flags word
\* differs from those stored in the first input; inputs whose sample counts
\* and flags equal the first file's are always accepted.
C19_CatRejects ==
    (cat_pc = "exit" /\ cat_result # NoContext) =>
        (cat_rc = -1 <=>
            \E i \in 2..Len(cat_files) :
                \/ CatHeaderOf(CatInput(i)).number_of_samples
                     # CatHeaderOf(CatInput(1)).number_of_samples
                \/ CatHeaderOf(CatInput(i)).flags # CatHeaderOf(CatInput(1)).flags)

\* ---------------------------------------------------------------- edit-bgen

MaxEditFiles == 2

\* The files edit-bgen is given: data files with one variant and a free
\* data field of one or two bytes, with a sample identifier block, without
\* one, or with one that an earlier run has blanked, or a name under which
\* there is no file.
EditFile(free_data, has_ids) ==
    [CatFile(1, 1, 1, e_Layout2 + e_ZlibCompression, has_ids)
        EXCEPT !.context.free_data = free_data]

Blanked(f) ==
    [f EXCEPT !.context.flags = [@ EXCEPT ![4] = 0],
              !.sample_block = [k \in 1..Len(@) |-> 0]]

EditFiles ==
    {OnDisk(FileBytes(EditFile(fd, ids))) : fd \in {<<120>>, <<120, 119>>}, ids \in BOOLEAN}
    \cup {OnDisk(FileBytes(Blanked(EditFile(fd, TRUE)))) : fd \in {<<120>>, <<120, 119>>}}
    \cup {NoFile}

EditOptions ==
    {[set_free_data |-> f, remove_sample_identifiers |-> r, really |-> y] :
        r \in BOOLEAN, y \in BOOLEAN,
        f \in {NotGiven, [given |-> TRUE, values |-> <<121>>],
               [given |-> TRUE, values |-> <<121, 122>>]}}

\* options().check( "-really" ), as edit_free_data and
\* remove_sample_identifiers are handed it.
Really_always(o) == TRUE
Really(o) == o.really

\* A write through a stream opened with std::ios::trunc: what lay after the
\* written bytes is gone.
stream_write_truncating(file, at, data) ==
    IF ~file.exists THEN file
    ELSE OnDisk([k \in 1..(at + Len(data)) |->
                    IF k > at THEN data[k - at]
                    ELSE IF k <= Len(file.bytes) THEN file.bytes[k] ELSE 0])

\* stream.write of `data` at 0-based position `at`; a stream that was not
\* opened writes nothing, and fstream opened for in | out creates no file.
stream_write(file, at, data) ==
    IF ~file.exists THEN file
    ELSE OnDisk([k \in 1..(IF at + Len(data) > Len(file.bytes)
                           THEN at + Len(data) ELSE Len(file.bytes)) |->
                    IF k > at /\ k <= at + Len(data) THEN data[k - at]
                    ELSE IF k <= Len(file.bytes) THEN file.bytes[k] ELSE 0])

\* What read_offset and read_header_block give when they read where no
\* header is (the stream is not at the start of the file, or was never
\* opened): an exception of the library's, or values made of whatever
\* bytes were there.
Threw == [threw |-> TRUE]
StrayContexts ==
    {[number_of_variants |-> 0, number_of_samples |-> 0, magic |-> <<0, 0, 0, 0>>,
      free_data |-> fd, flags |-> <<0, 0, 0, f>>] :
        fd \in {<< >>, <<7>>}, f \in {0, e_SampleIdentifiers}}
StrayReads ==
    {Threw} \cup {[threw |-> FALSE, context |-> c, offset |-> header_size(c) + extra] :
                     c \in StrayContexts, extra \in {0, 1}}

\* read_header_block after seekg( 4 ), and read_offset followed by
\* read_header_block from where the stream is.
HeaderReads(file) ==
    IF file.exists
    THEN {[threw |-> FALSE, context |-> read_header_block(file.bytes, 5),
           offset |-> read_offset(file.bytes)]}
    ELSE StrayReads

OffsetAndHeaderReads(file, position) ==
    IF file.exists /\ position = 0 THEN HeaderReads(file) ELSE StrayReads

\* unsafe_process: the functions still to be called after `stage`.
StageAfter(stage, o) ==
    IF stage = "start" /\ o.set_free_data.given THEN "edit_free_data"
    ELSE IF stage \in {"start", "edit_free_data"} /\ o.remove_sample_identifiers
    THEN "remove_sample_identifiers"
    ELSE "end"

\* The constructor up to unsafe_process's first call: the streams are
\* opened.
edit_open ==
    /\ edit_pc = "start"
    /\ edit_streams' = [i \in 1..Len(edit_disk) |-> 0]
    /\ edit_pc' = StageAfter("start", edit_opt)
    /\ UNCHANGED <<edit_disk, edit_opt, edit_i, edit_log, edit_rc>>
    /\ UNCHANGED outside_edit

\* edit_free_data on file i + 1, and the loop's step to the next file.
edit_free_data ==
    /\ edit_pc = "edit_free_data"
    /\ edit_i < Len(edit_disk)
    /\ LET i == edit_i + 1
           free_data == edit_opt.set_free_data.values
       IN  \E read \in HeaderReads(edit_disk[i]) :
             IF read.threw
             THEN /\ edit_log' = Append(edit_log, "Setting free data")
                  /\ edit_rc' = Terminated
                  /\ edit_pc' = "exit"
                  /\ UNCHANGED <<edit_disk, edit_streams, edit_i>>
             ELSE IF Len(read.context.free_data) # Len(free_data)
             THEN /\ edit_log' = edit_log \o <<"Setting free data",
                                               "size of new free data does not match",
                                               "Error"  >>
                  /\ edit_rc' = -1
                  /\ edit_pc' = "exit"
                  /\ UNCHANGED <<edit_disk, edit_streams, edit_i>>
             ELSE /\ IF Really(edit_opt)
                     THEN /\ edit_disk' = [edit_disk EXCEPT
                                             ![i] = stream_write(@, 20, free_data)]
                          /\ edit_streams' = [edit_streams EXCEPT
                                                ![i] = 20 + Len(free_data)]
                          /\ edit_log' = edit_log \o <<"Setting free data", "ok">>
                     ELSE /\ edit_streams' = [edit_streams EXCEPT
                                                ![i] = 4 + header_size(read.context)]
                          /\ edit_log' = edit_log \o <<"Setting free data", "ok (dry run)">>
                          /\ UNCHANGED edit_disk
                  /\ edit_i' = i
                  /\ UNCHANGED <<edit_rc, edit_pc>>
    /\ UNCHANGED edit_opt
    /\ UNCHANGED outside_edit

\* remove_sample_identifiers on file i + 1, and the loop's step to the next
\* file.
remove_sample_identifiers ==
    /\ edit_pc = "remove_sample_identifiers"
    /\ edit_i < Len(edit_disk)
    /\ LET i == edit_i + 1
       IN  \E read \in OffsetAndHeaderReads(edit_disk[i], edit_streams[i]) :
             IF read.threw
             THEN /\ edit_log' = Append(edit_log, "Checking sample identifiers")
                  /\ edit_rc' = Terminated
                  /\ edit_pc' = "exit"
                  /\ UNCHANGED <<edit_disk, edit_streams, edit_i>>
             ELSE /\ IF HasSampleIdentifiers(read.context.flags)
                     THEN IF Really(edit_opt)
                          THEN LET context == [read.context EXCEPT
                                                 !.flags = WithoutSampleIdentifiers(@)]
                                   hs == header_size(read.context)
                                   zeros == [k \in 1..(read.offset - hs) |-> 0]
                               IN  /\ edit_disk' = [edit_disk EXCEPT ![i] =
                                         stream_write(
                                             stream_write(@, 4, write_header_block(context)),
                                             hs + 4, zeros)]
                                   /\ edit_streams' = [edit_streams EXCEPT
                                                         ![i] = hs + 4 + Len(zeros)]
                                   /\ edit_log' = edit_log \o
                                         <<"Checking sample identifiers", "removing", "ok">>
                          ELSE /\ edit_streams' = [edit_streams EXCEPT
                                     ![i] = IF edit_disk[i].exists /\ @ = 0
                                            THEN 4 + header_size(read.context) ELSE @]
                               /\ edit_log' = edit_log \o
                                     <<"Checking sample identifiers", "removing",
                                       "ok (dry run)">>
                               /\ UNCHANGED edit_disk
                     ELSE /\ edit_streams' = [edit_streams EXCEPT
                                ![i] = IF edit_disk[i].exists /\ @ = 0
                                       THEN 4 + header_size(read.context) ELSE @]
                          /\ edit_log' = edit_log \o
                                <<"Checking sample identifiers", "no identifiers present">>
                          /\ UNCHANGED edit_disk
                  /\ edit_i' = i
                  /\ UNCHANGED <<edit_rc, edit_pc>>
    /\ UNCHANGED edit_opt
    /\ UNCHANGED outside_edit

\* A function's loop is over: unsafe_process goes on to the next one.
edit_next ==
    /\ edit_pc \in {"edit_free_data", "remove_sample_identifiers"}
    /\ edit_i = Len(edit_disk)
    /\ edit_pc' = StageAfter(edit_pc, edit_opt)
    /\ edit_i' = 0
    /\ UNCHANGED <<edit_disk, edit_streams, edit_opt, edit_log, edit_rc>>
    /\ UNCHANGED outside_edit

\* The end of unsafe_process; main returns 0.
edit_end ==
    /\ edit_pc = "end"
    /\ edit_log' = IF ~edit_opt.set_free_data.given /\ ~edit_opt.remove_sample_identifiers
                   THEN Append(edit_log, "!! Nothing to do.")
                   ELSE edit_log
    /\ edit_rc' = 0
    /\ edit_pc' = "exit"
    /\ UNCHANGED <<edit_disk, edit_streams, edit_opt, edit_i>>
    /\ UNCHANGED outside_edit

InitEdit ==
    /\ OutsideEditIdle
    /\ edit_disk \in UNION {[1..m -> EditFiles] : m \in 1..MaxEditFiles}
    /\ edit_streams = << >>
    /\ edit_opt \in EditOptions
    /\ edit_pc = "start"
    /\ edit_i = 0
    /\ edit_log = << >>
    /\ edit_rc = NoReturnCode

NextEdit ==
    \/ edit_open
    \/ edit_free_data
    \/ remove_sample_identifiers
    \/ edit_next
    \/ edit_end

SpecEdit == InitEdit /\ [][NextEdit]_vars

\* C20: without -really no step of an edit-bgen run, whatever its actions
\* and files and whether it succeeds or fails, changes a byte of a file or
\* creates one.
C20_DryRunWritesNothing ==
    [][~edit_opt.really => edit_disk' = edit_disk]_vars

\* A dry run with both actions has ended after both functions went through
\* a file and reported it.
C20_Witness ==
    /\ edit_pc = "exit"
    /\ ~edit_opt.really
    /\ edit_opt.set_free_data.given
    /\ edit_opt.remove_sample_identifiers
    /\ \E k \in 1..Len(edit_log) : edit_log[k] = "ok (dry run)"
    /\ \E k \in 1..Len(edit_log) : edit_log[k] = "Checking sample identifiers"

\* A run of edit-bgen -set-free-data S -really on one file that is there.
SetFreeDataAlone ==
    /\ Len(edit_disk) = 1
    /\ edit_disk[1].exists
    /\ edit_opt.set_free_data.given
    /\ ~edit_opt.remove_sample_identifiers
    /\ edit_opt.really

EditHeaderOf(file) == read_header_block(file.bytes, 5)
SameFreeDataLength(file) ==
    Len(EditHeaderOf(file).free_data) = Len(edit_opt.set_free_data.values)

\* C21: for a single file, edit-bgen -set-free-data S -really succeeds iff
\* |S| is the length of the file's free data; on success bytes [20, 20+|S|)
\* are S, a header read gives free_data = S and every other byte is as it
\* was; on a length mismatch the return code is -1 and the file is as it
\* was.
C21_SetFreeData ==
    /\ []((SetFreeDataAlone /\ edit_pc = "exit") =>
            /\ edit_rc \in {0, -1}
            /\ edit_rc = 0 <=> SameFreeDataLength(edit_disk[1]))
    /\ [][SetFreeDataAlone =>
            IF edit_pc = "edit_free_data" /\ edit_i = 0 /\ SameFreeDataLength(edit_disk[1])
            THEN LET S == edit_opt.set_free_data.values
                     before == edit_disk[1].bytes
                     after == edit_disk'[1].bytes
                 IN  /\ edit_disk'[1].exists
                     /\ Len(after) = Len(before)
                     /\ \A k \in 1..Len(before) :
                           after[k] = IF k > 20 /\ k <= 20 + Len(S)
                                      THEN S[k - 20] ELSE before[k]
                     /\ EditHeaderOf(edit_disk'[1]).free_data = S
                     /\ edit_rc' = NoReturnCode
            ELSE /\ edit_disk' = edit_disk
                 /\ (edit_pc = "edit_free_data" /\ edit_i = 0) => edit_rc' = -1]_vars

\* The run has ended well and the file's free data, which was <<120>>, is
\* now <<121>>.
C21_Witness ==
    /\ SetFreeDataAlone
    /\ edit_pc = "exit"
    /\ edit_rc = 0
    /\ edit_opt.set_free_data.values = <<121>>
    /\ EditHeaderOf(edit_disk[1]).free_data = <<121>>

\* A run of edit-bgen -remove-sample-identifiers -really is about to handle
\* a file that is there.
RemoveAloneAt(i) ==
    /\ edit_pc = "remove_sample_identifiers"
    /\ edit_i + 1 = i
    /\ i <= Len(edit_disk)
    /\ edit_disk[i].exists
    /\ ~edit_opt.set_free_data.given
    /\ edit_opt.really

\* C22: edit-bgen -remove-sample-identifiers -really on a file whose sample
\* identifier flag is set clears only bit 31 of the flags word, zeroes the
\* bytes [4+header_size, 4+offset) and leaves the offset field, the other
\* header fields and the bytes from 4+offset on as they were; on a file
\* whose flag is clear it changes nothing; the file it leaves has the flag
\* clear, so that a second application changes nothing more.
C22_RemoveSampleIdentifiers ==
    [][\A i \in 1..MaxEditFiles : RemoveAloneAt(i) =>
          LET before == edit_disk[i].bytes
              after == edit_disk'[i].bytes
              hs == header_size(EditHeaderOf(edit_disk[i]))
              offset == read_offset(before)
          IN  /\ \A j \in 1..Len(edit_disk) : j # i => edit_disk'[j] = edit_disk[j]
              /\ IF HasSampleIdentifiers(EditHeaderOf(edit_disk[i]).flags)
                 THEN /\ edit_disk'[i].exists
                      /\ Len(after) = Len(before)
                      /\ \A k \in 1..Len(before) :
                            after[k] = IF k = 4 + hs THEN before[k] - e_SampleIdentifiers
                                       ELSE IF k > 4 + hs /\ k <= 4 + offset THEN 0
                                       ELSE before[k]
                      /\ ~HasSampleIdentifiers(EditHeaderOf(edit_disk'[i]).flags)
                      /\ edit_disk'[i] \in EditFiles
                 ELSE edit_disk'[i] = edit_disk[i]]_vars

\* A run has removed the sample identifiers of its one file: the flag is
\* clear, the block is zero and the offset is still behind the block.
C22_Witness ==
    /\ edit_pc = "exit"
    /\ edit_rc = 0
    /\ Len(edit_disk) = 1
    /\ edit_disk[1].exists
    /\ ~edit_opt.set_free_data.given
    /\ edit_opt.really
    /\ \E k \in 1..Len(edit_log) : edit_log[k] = "removing"
    /\ ~HasSampleIdentifiers(EditHeaderOf(edit_disk[1]).flags)
    /\ read_offset(edit_disk[1].bytes) > header_size(EditHeaderOf(edit_disk[1]))
    /\ \A k \in (5 + header_size(EditHeaderOf(edit_disk[1])))
                    ..(4 + read_offset(edit_disk[1].bytes)) :
          edit_disk[1].bytes[k] = 0

\* What a run of edit-bgen -remove-sample-identifiers alone makes of a file.
SampleIdentifiersRemoved(file, really) ==
    LET context == EditHeaderOf(file)
        hs == header_size(context)
    IN  IF really /\ HasSampleIdentifiers(context.flags)
        THEN OnDisk([k \in 1..Len(file.bytes) |->
                        IF k = 4 + hs THEN file.bytes[k] - e_SampleIdentifiers
                        ELSE IF k > 4 + hs /\ k <= 4 + read_offset(file.bytes) THEN 0
                        ELSE file.bytes[k]])
        ELSE file

\* C26: with both -set-free-data S and -remove-sample-identifiers, with or
\* without -really, the second action does to each file what a separate run
\* of edit-bgen -remove-sample-identifiers would do to the file the first
\* action left: it reads the offset and the header from the start of the
\* file, reports the same and leaves the same bytes.
C26_BothActions ==
    [][\A i \in 1..MaxEditFiles :
          (/\ edit_pc = "remove_sample_identifiers"
           /\ edit_i + 1 = i
           /\ i <= Len(edit_disk)
           /\ edit_disk[i].exists
           /\ edit_opt.set_free_data.given) =>
              /\ edit_disk' = [edit_disk EXCEPT
                                 ![i] = SampleIdentifiersRemoved(@, edit_opt.really)]
              /\ edit_rc' = NoReturnCode
              /\ edit_log'[Len(edit_log')] =
                    IF ~HasSampleIdentifiers(EditHeaderOf(edit_disk[i]).flags)
                    THEN "no identifiers present"
                    ELSE IF edit_opt.really THEN "ok" ELSE "ok (dry run)"]_vars

\* A run of edit-bgen -set-free-data S -really over files that are there,
\* one of which has free data that is not |S| bytes long.
SomeFreeDataMismatch ==
    /\ edit_opt.set_free_data.given
    /\ ~edit_opt.remove_sample_identifiers
    /\ edit_opt.really
    /\ \A i \in 1..Len(edit_disk) : edit_disk[i].exists
    /\ \E i \in 1..Len(edit_disk) : ~SameFreeDataLength(edit_disk[i])

\* C27: edit-bgen -g f1 ... fm -set-free-data S -really is all or nothing:
\* when some file's free data is not |S| bytes long the run ends with
\* return code -1 and no step of it has changed a file.
C27_AllOrNothing ==
    /\ []((SomeFreeDataMismatch /\ edit_pc = "exit") => edit_rc = -1)
    /\ [][SomeFreeDataMismatch => edit_disk' = edit_disk]_vars

\* ------------------------------------------- more about the index build

MaxLoopVariants == 2

\* The variants a View serves: SNPID and rsid empty or not, two or three
\* alleles.
LoopVariants ==
    {[SNPID |-> a, rsid |-> r, alleles |-> al] :
        a \in {"", "snp1"}, r \in {"", "rs1"},
        al \in {<<"A", "G">>, <<"A", "G", "T">>}}

\* The strings and the vector as they are declared, before any read.
NothingRead == [SNPID |-> "", rsid |-> "", alleles |-> << >>]

\* View::read_variant: true with the arguments filled and the cursor at the
\* probability block, or false at the end of the file with the arguments
\* and the cursor as they were.
view_read_variant(v, served, readable, fields) ==
    IF v.next <= readable
    THEN [success |-> TRUE, fields |-> served[v.next],
          view |-> [next |-> v.next, state |-> "AtProbBlock"]]
    ELSE [success |-> FALSE, fields |-> fields, view |-> v]

\* ignore_genotype_data_block, read_genotype_data_block and
\* read_and_unpack_v12_genotype_data_block: the View must be at a
\* probability block, and is behind it afterwards.
InState(v) == v.state = "AtProbBlock"
probability_block(v) == [next |-> v.next + 1, state |-> "AtVariantId"]

\* bgenView.number_of_variants() as the for loops see it: the size of the
\* query's plan.
number_of_variants == Len(loop_plan)

\* The call of read_variant that heads each pass: the test of the index
\* build's while loop, the first statement of the others' for loops.
loop_read_variant_call ==
    /\ loop_pc = "read_variant"
    /\ loop_mode # "index" => loop_i < number_of_variants
    /\ LET r == view_read_variant(loop_view, loop_plan, loop_readable, loop_fields)
       IN  /\ loop_success' = r.success
           /\ loop_fields' = r.fields
           /\ loop_view' = r.view
    /\ loop_ops' = 0
    /\ loop_pc' = "body"
    /\ UNCHANGED <<loop_mode, loop_ndebug, loop_plan, loop_readable, loop_i,
                   loop_out, loop_end>>
    /\ UNCHANGED outside_loop

\* The probability-block operation of a pass and the step to the next pass.
LoopOperation ==
    IF InState(loop_view)
    THEN /\ loop_view' = probability_block(loop_view)
         /\ loop_ops' = loop_ops + 1
         /\ loop_i' = loop_i + 1
         /\ loop_pc' = "read_variant"
         /\ UNCHANGED loop_end
    ELSE /\ loop_end' = "StateViolation"
         /\ loop_ops' = loop_ops + 1
         /\ loop_pc' = "exit"
         /\ UNCHANGED <<loop_view, loop_i>>

LoopEnds(how) ==
    /\ loop_end' = how
    /\ loop_pc' = "exit"
    /\ UNCHANGED <<loop_view, loop_i, loop_ops>>

\* create_bgen_index_direct: while( read_variant ) { ignore ... }.
index_pass ==
    /\ loop_pc = "body"
    /\ loop_mode = "index"
    /\ IF loop_success THEN LoopOperation ELSE LoopEnds("returned")
    /\ UNCHANGED <<loop_mode, loop_ndebug, loop_plan, loop_readable,
                   loop_success, loop_fields, loop_out>>
    /\ UNCHANGED outside_loop

\* The data line process_selection_list prints from its locals; alleles[0]
\* of an empty vector is read outside the vector.
DotIfEmpty(str) == IF str = "" THEN "." ELSE str
ListLine(fields, stray) ==
    <<DotIfEmpty(fields.SNPID), DotIfEmpty(fields.rsid), Len(fields.alleles),
      IF fields.alleles = << >> THEN stray ELSE fields.alleles[1]>>

\* process_selection_list: the line is printed, then success is tested.
list_pass ==
    /\ loop_pc = "body"
    /\ loop_mode = "list"
    /\ \E stray \in {"", "?"}, crash \in BOOLEAN :
         IF loop_fields.alleles = << >> /\ crash
         THEN /\ LoopEnds("SIGSEGV")
              /\ UNCHANGED loop_out
         ELSE /\ loop_out' = Append(loop_out, ListLine(loop_fields, stray))
              /\ IF loop_success THEN LoopOperation ELSE LoopEnds("std::invalid_argument")
    /\ UNCHANGED <<loop_mode, loop_ndebug, loop_plan, loop_readable,
                   loop_success, loop_fields>>
    /\ UNCHANGED outside_loop

\* process_selection_transcode_bgen_vcf: assert( success ), assert(
\* alleles.size() > 1 ), the line's first columns, then the probability
\* block is read.
vcf_pass ==
    /\ loop_pc = "body"
    /\ loop_mode = "vcf"
    /\ IF ~loop_ndebug /\ (~loop_success \/ Len(loop_fields.alleles) <= 1)
       THEN LoopEnds("assertion")
       ELSE \E crash \in BOOLEAN :
              IF loop_fields.alleles = << >> /\ crash
              THEN LoopEnds("SIGSEGV")
              ELSE LoopOperation
    /\ UNCHANGED <<loop_mode, loop_ndebug, loop_plan, loop_readable,
                   loop_success, loop_fields, loop_out>>
    /\ UNCHANGED outside_loop

\* process_selection_transcode_bgen_v11: assert( success ), the test of
\* alleles.size(), then the probability block is read.
v11_pass ==
    /\ loop_pc = "body"
    /\ loop_mode = "v11"
    /\ IF ~loop_ndebug /\ ~loop_success
       THEN LoopEnds("assertion")
       ELSE IF Len(loop_fields.alleles) # 2
       THEN LoopEnds("std::invalid_argument")
       ELSE LoopOperation
    /\ UNCHANGED <<loop_mode, loop_ndebug, loop_plan, loop_readable,
                   loop_success, loop_fields, loop_out>>
    /\ UNCHANGED outside_loop

\* The for loops' end.
loop_done ==
    /\ loop_pc = "read_variant"
    /\ loop_mode # "index"
    /\ loop_i = number_of_variants
    /\ loop_end' = "returned"
    /\ loop_pc' = "exit"
    /\ UNCHANGED <<loop_mode, loop_ndebug, loop_plan, loop_readable, loop_view,
                   loop_i, loop_success, loop_fields, loop_out, loop_ops>>
    /\ UNCHANGED outside_loop

InitLoop ==
    /\ OutsideLoopIdle
    /\ loop_mode \in {"index", "list", "vcf", "v11"}
    /\ loop_ndebug \in BOOLEAN
    /\ loop_plan \in UNION {[1..m -> LoopVariants] : m \in 0..MaxLoopVariants}
    /\ loop_readable \in 0..Len(loop_plan)
    /\ loop_view = [next |-> 1, state |-> "AtVariantId"]
    /\ loop_i = 0
    /\ loop_success = FALSE
    /\ loop_fields = NothingRead
    /\ loop_pc = "read_variant"
    /\ loop_out = << >>
    /\ loop_ops = 0
    /\ loop_end = "none"

NextLoop ==
    \/ loop_read_variant_call
    \/ index_pass
    \/ list_pass
    \/ vcf_pass
    \/ v11_pass
    \/ loop_done

SpecLoop == InitLoop /\ [][NextLoop]_vars

\* C24: in every loop over a View a probability-block operation is issued
\* only when the View is at a probability block, right after a read_variant
\* that returned true, and exactly one is issued after each such
\* read_variant; no run ends in StateViolation, also when read_variant
\* returns false before number_of_variants() passes are done.
C24_ViewProtocol ==
    /\ [](loop_end # "StateViolation")
    /\ [][loop_ops' > loop_ops => (loop_success /\ InState(loop_view))]_vars
    /\ [][(loop_pc = "body" /\ loop_success /\ loop_pc' = "read_variant")
             => loop_ops' = 1]_vars

\* The read_variant calls of the run that returned true.
SuccessfulReads ==
    (loop_view.next - 1) + (IF loop_view.state = "AtProbBlock" THEN 1 ELSE 0)

\* C29: in -list mode exactly one data line is printed per variant that
\* read_variant returned, in plan order, with an empty SNPID or rsid shown
\* as "."; no data line is printed for a read_variant call that returned
\* false.
C29_ListLines ==
    (loop_mode = "list" /\ loop_pc # "body") =>
        loop_out = [k \in 1..SuccessfulReads |-> ListLine(loop_plan[k], "")]

\* ------------------------------------- extract_encoded_genotype by itself

MaxExtractSamples == 3

\* The stored probabilities (x, y) of a sample at a bit width.
ExtractPairs(bits) ==
    {<<0, 0>>, <<maxProb(bits), 0>>, <<0, maxProb(bits)>>, <<1, maxProb(bits) - 1>>}

\* The offsets of the two bytes that *encoding_p reads.
EncodingBytes(i, bits) ==
    LET at == (2 * i * bits) \div 8 IN {at, at + 1}

\* The packed probability area: [buffer, end).
ExtractBuffer == PackedBuffer(extract_samples, extract_bits)

\* The loop over the samples of the faster method: one call per sample.
extract_call ==
    /\ extract_bits # 0
    /\ extract_i < Len(extract_samples)
    /\ \E beyond \in {0, 255} :
         extract_result' =
             extract_encoded_genotype(ExtractBuffer, extract_i, extract_bits, beyond)
    /\ extract_read' = EncodingBytes(extract_i, extract_bits)
    /\ extract_i' = extract_i + 1
    /\ UNCHANGED <<extract_bits, extract_samples>>
    /\ UNCHANGED outside_extract

InitExtract ==
    /\ OutsideExtractIdle
    /\ extract_bits \in {1, 2, 4, 8}
    /\ extract_samples \in
          UNION {[1..n -> {Sample(2, pair) : pair \in ExtractPairs(extract_bits)}] :
                    n \in 1..MaxExtractSamples}
    /\ extract_i = 0
    /\ extract_result = 0
    /\ extract_read = {}

NextExtract == extract_call

SpecExtract == InitExtract /\ [][NextExtract]_vars

\* Bit k of the packed area, and the `width` bits from bit offset `from`
\* as a number, lowest bit first.
BitOfBuffer(buffer, k) == (buffer[(k \div 8) + 1] \div Pow(2, k % 8)) % 2
BitsOfBuffer(buffer, from, width) ==
    SumTo([j \in 1..width |-> BitOfBuffer(buffer, from + j - 1) * Pow(2, j - 1)], width)

\* C25: for bits in {1,2,4,8} and every sample index i,
\* extract_encoded_genotype returns the 2*bits bits of the packed buffer
\* from bit offset 2*i*bits, x in the low `bits` bits and y in the next,
\* which is the key (y << bits) | x of the VCF encoding table.
C25_ExtractedKey ==
    extract_i > 0 =>
        LET i == extract_i - 1
            stored == extract_samples[i + 1].stored
        IN  /\ extract_result = BitsOfBuffer(ExtractBuffer, 2 * i * extract_bits,
                                             2 * extract_bits)
            /\ extract_result % Pow(2, extract_bits) = stored[1]
            /\ extract_result \div Pow(2, extract_bits) = stored[2]
            /\ extract_result = VcfKey(stored[1], stored[2], extract_bits)

\* The second of three 2-bit samples, whose bits are the high half of the
\* first byte, has been extracted: x = 1, y = 2.
C25_Witness ==
    /\ extract_bits = 2
    /\ Len(extract_samples) = 3
    /\ extract_i = 2
    /\ extract_samples[2].stored = <<1, 2>>
    /\ extract_result = 9

\* C30: for bits in {1,2,4,8}, every sample count n >= 1 and every i < n,
\* extract_encoded_genotype reads only bytes of the packed probability area
\* of ceil(2*n*bits/8) bytes, none at or beyond `end`.
C30_ReadsInsideBuffer ==
    /\ Len(ExtractBuffer) = (2 * Len(extract_samples) * extract_bits + 7) \div 8
    /\ \A k \in extract_read : k < Len(ExtractBuffer)

\* ------------------------------------------- more about the -v11 transcoder

\* C28: the layout-1 file written by bgenix -v11 has a self-consistent
\* header: its offset field is its header size, the sample identifier flag
\* is clear, number_of_samples is the input's, and number_of_variants is the
\* number of variant records written (the size of the query's plan), also
\* when the selection is a strict subset of the input's variants.
C28_V11Header ==
    (v11_pc = "exit" /\ v11_rc = 0) =>
        LET header == v11_out[1].payload
        IN  /\ v11_out[1].kind = "header"
            /\ header.offset = header_size(header.context)
            /\ ~HasSampleIdentifiers(header.context.flags)
            /\ header.context.number_of_samples = v11_view.context.number_of_samples
            /\ header.context.number_of_variants = Cardinality(V11Emitted)
            /\ Cardinality(V11Emitted) = Len(v11_view.variants)

====
